---- MODULE Spec2Model ----
(***************************************************************************)
(* Fractional rank ordering of sections, tasks and subtasks, as            *)
(* implemented by ProjectService (src/src/project/project.service.ts).     *)
(*                                                                         *)
(* A rank key is a string of decimal digits; it is modelled as a sequence  *)
(* of digits 0..9, most significant digit first.  A bigint is modelled as  *)
(* the digit sequence that BigInt.prototype.toString() prints (no leading  *)
(* zeros), so that pad / toBig are real conversions and all arithmetic is  *)
(* done with the full 16-digit width of the program.                       *)
(***************************************************************************)
EXTENDS Integers, Sequences, FiniteSets, TLC

\* ------------------------------------------------------------------------
\* Program constants
\* ------------------------------------------------------------------------
WIDTH == 16

MAX_RETRY == 3

\* the empty string; a null / undefined rank behaves like it wherever the
\* program consumes a rank (!prev, s && s.length, !last.rank)
NullStr == << >>

\* ------------------------------------------------------------------------
\* bigint arithmetic on digit sequences
\* ------------------------------------------------------------------------
RECURSIVE StripZeros(_)
\* BigInt(s): parsing a decimal string drops its leading zeros
StripZeros(s) ==
  IF Len(s) > 1 /\ Head(s) = 0 THEN StripZeros(Tail(s)) ELSE s

\* the i-th digit from the right, 0 beyond the most significant digit
DigitR(s, i) == IF i <= Len(s) THEN s[Len(s) + 1 - i] ELSE 0

MaxOf(x, y) == IF x >= y THEN x ELSE y

RECURSIVE AddR(_, _, _, _)
AddR(a, b, i, carry) ==
  IF i > MaxOf(Len(a), Len(b))
    THEN (IF carry = 0 THEN << >> ELSE << carry >>)
    ELSE LET t == DigitR(a, i) + DigitR(b, i) + carry
         IN  Append(AddR(a, b, i + 1, t \div 10), t % 10)

\* a + b.  Here and below an operand is bound in a one-element set where it
\* is used more than once: TLC then evaluates it once, also inside ENABLED
\* and inside the action of a fairness condition, where it keeps no
\* intermediate values.
BigAdd(a, b) ==
  CHOOSE r \in { AddR(x, y, 1, 0) : x \in {a}, y \in {b} } : TRUE

RECURSIVE Div2R(_, _, _)
Div2R(a, i, rem) ==
  IF i > Len(a) THEN << >>
  ELSE LET t == rem * 10 + a[i]
       IN  << t \div 2 >> \o Div2R(a, i + 1, t % 2)

\* a / 2n (bigint division truncates; operands are never negative)
BigDiv2(a) ==
  CHOOSE r \in { StripZeros(q) : q \in { Div2R(x, 1, 0) : x \in {a} } } : TRUE

RECURSIVE LexLt(_, _, _)
\* lexicographic comparison from position i on; a proper prefix is smaller
LexLt(a, b, i) ==
  IF i > Len(b) THEN FALSE
  ELSE IF i > Len(a) THEN TRUE
  ELSE IF a[i] # b[i] THEN a[i] < b[i]
  ELSE LexLt(a, b, i + 1)

\* a < b on bigints
BigLt(a, b) ==
  \E x \in {a} : \E y \in {b} :
    \/ Len(x) < Len(y)
    \/ Len(x) = Len(y) /\ LexLt(x, y, 1)

\* a >= b on bigints
BigGe(a, b) == ~BigLt(a, b)

One == << 1 >>

\* ------------------------------------------------------------------------
\* RANKING UTIL
\* ------------------------------------------------------------------------
\* MAX = BigInt('9'.repeat(WIDTH))
MAX == [i \in 1..WIDTH |-> 9]

\* '0'.repeat(k)
Zeros(k) == [i \in 1..k |-> 0]

\* pad without the zero fill
padUnfilled(n) ==
  IF Len(n) >= WIDTH THEN SubSeq(n, Len(n) - WIDTH + 1, Len(n)) ELSE n

pad(n) ==
  LET w == WIDTH
  IN  CHOOSE r \in { IF Len(s) >= w THEN SubSeq(s, Len(s) - w + 1, Len(s))
                     ELSE Zeros(w - Len(s)) \o s : s \in {n} } : TRUE

toBig(s) ==
  CHOOSE r \in { IF x # NullStr THEN StripZeros(x) ELSE << 0 >> : x \in {s} } :
    TRUE

\* mid with the upper boundary dropped (the fallback formula everywhere)
midIgnoringUpper(a, b) == pad(BigDiv2(BigAdd(a, MAX)))

\* mid without the bump for a midpoint that equals a boundary
midNoBump(a, b) ==
  IF BigGe(a, b) THEN pad(BigDiv2(BigAdd(a, MAX)))
  ELSE pad(BigDiv2(BigAdd(a, b)))

mid(a, b) ==
  IF BigGe(a, b) THEN pad(BigDiv2(BigAdd(a, MAX)))
  ELSE LET m == BigDiv2(BigAdd(a, b))
       IN  IF m = a \/ m = b THEN pad(BigAdd(a, One))
           ELSE pad(m)

\* rankBetween that returns the upper boundary itself when only it is given
rankBetweenNoHalving(prev, next) ==
  IF prev = NullStr /\ next = NullStr THEN [i \in 1..WIDTH |-> 8]
  ELSE IF prev = NullStr /\ next # NullStr THEN pad(toBig(next))
  ELSE IF prev # NullStr /\ next = NullStr
    THEN pad(BigDiv2(BigAdd(toBig(prev), MAX)))
  ELSE mid(toBig(prev), toBig(next))

\* rankBetween whose default is the arithmetic midpoint of the key space
rankBetweenMidpoint(prev, next) ==
  IF prev = NullStr /\ next = NullStr THEN pad(BigDiv2(MAX))
  ELSE IF prev = NullStr /\ next # NullStr THEN pad(BigDiv2(toBig(next)))
  ELSE IF prev # NullStr /\ next = NullStr
    THEN pad(BigDiv2(BigAdd(toBig(prev), MAX)))
  ELSE mid(toBig(prev), toBig(next))

rankBetween(prev, next) ==
  IF prev = NullStr /\ next = NullStr THEN [i \in 1..WIDTH |-> 8]
  ELSE IF prev = NullStr /\ next # NullStr THEN pad(BigDiv2(toBig(next)))
  ELSE IF prev # NullStr /\ next = NullStr
    THEN pad(BigDiv2(BigAdd(toBig(prev), MAX)))
  ELSE mid(toBig(prev), toBig(next))

rankAfter(prev) == rankBetween(prev, NullStr)

rankFirst == Zeros(WIDTH - 1) \o << 1 >>

\* string comparison of the storage layer (rank: { gt/lt }, orderBy rank)
StrLt(a, b) == \E x \in {a} : \E y \in {b} : LexLt(x, y, 1)

\* ------------------------------------------------------------------------
\* Identifiers
\* ------------------------------------------------------------------------
\* a null id (null section of a task, absent hint after normalisation)
NULL == "null"

\* the ids in the order in which the storage hands them out to new rows
ProjectOrder == << "p1", "p2", "p3" >>
SectionOrder == << "s1", "s2", "s3", "s4" >>
TaskOrder    == << "t1", "t2", "t3", "t4", "t5" >>
SubOrder     == << "u1", "u2", "u3", "u4", "u5" >>

Range(f) == { f[i] : i \in DOMAIN f }
IndexOf(f, x) == CHOOSE i \in DOMAIN f : f[i] = x

ProjectIds == Range(ProjectOrder)
SectionIds == Range(SectionOrder)
TaskIds    == Range(TaskOrder)
SubIds     == Range(SubOrder)

\* an id as it arrives in a request: null / undefined (nul), or a string
\* made of an optional "section-" prefix and a body that matches UUID_REGEX
\* or not, possibly in upper case; text is the body in lower case
NullRaw  == [nul |-> TRUE, pfx |-> FALSE, wf |-> FALSE, up |-> FALSE, text |-> ""]
EmptyRaw == [nul |-> FALSE, pfx |-> FALSE, wf |-> FALSE, up |-> FALSE, text |-> ""]
Raw(g)   == [nul |-> FALSE, pfx |-> FALSE, wf |-> TRUE, up |-> FALSE, text |-> g]

\* a string that does not match UUID_REGEX
Malformed == [nul |-> FALSE, pfx |-> FALSE, wf |-> FALSE, up |-> FALSE, text |-> "not-a-uuid"]

\* "section-" followed by a uuid, and a uuid written in upper case
Prefixed(g) == [nul |-> FALSE, pfx |-> TRUE, wf |-> TRUE, up |-> FALSE, text |-> g]
Upper(g)    == [nul |-> FALSE, pfx |-> FALSE, wf |-> TRUE, up |-> TRUE, text |-> g]

LowerIds == ProjectOrder \o SectionOrder \o TaskOrder \o SubOrder
UpperIds == << "P1", "P2", "P3", "S1", "S2", "S3", "S4",
               "T1", "T2", "T3", "T4", "T5", "U1", "U2", "U3", "U4", "U5" >>

\* the upper-case form of an id
ToUpperCase(g) ==
  IF g \in Range(LowerIds) THEN UpperIds[IndexOf(LowerIds, g)] ELSE g

\* the string a request carries where the program uses it as it is
\* (projectId, taskId, section ?? null): no prefix is stripped, no case
\* is folded, and only null / undefined is null
Text(id) ==
  IF id.nul THEN NULL
  ELSE (IF id.pfx THEN "section-" ELSE "")
         \o (IF id.up THEN ToUpperCase(id.text) ELSE id.text)

\* the forms a string can take, and the form of a string the program holds
\* (a stored id_dt_section is passed to normalizeGuid like a request id)
RawForms ==
  { NullRaw, EmptyRaw, Malformed }
    \cup { [nul |-> FALSE, pfx |-> px, wf |-> TRUE, up |-> u, text |-> g] :
             px \in BOOLEAN, u \in BOOLEAN, g \in Range(LowerIds) }

FromText(v) ==
  IF v = NULL THEN NullRaw
  ELSE IF \E x \in RawForms : ~x.nul /\ Text(x) = v
    THEN CHOOSE x \in RawForms : ~x.nul /\ Text(x) = v
  ELSE Malformed

\* if (!id) return null; a leading 'section-' is removed
stripSectionPrefix(id) ==
  IF id.nul \/ (~id.pfx /\ id.text = "") THEN NullRaw
  ELSE IF id.pfx THEN [id EXCEPT !.pfx = FALSE] ELSE id

\* null unless the stripped string matches UUID_REGEX; then toLowerCase()
normalizeGuid(id) ==
  LET raw == stripSectionPrefix(id)
  IN  IF raw.nul \/ raw.text = "" \/ ~raw.wf THEN NULL
      ELSE raw.text

\* ------------------------------------------------------------------------
\* State
\* ------------------------------------------------------------------------
VARIABLES
  projects,   \* DT_PROJECT : id -> [exists, deleted]
  sections,   \* DT_SECTION : id -> [exists, project, rank]
  tasks,      \* DT_TASK    : id -> [exists, project, section, rank]
  subtasks,   \* DT_SUB_TASK: id -> [exists, task, rank]
  proc,       \* the calls in progress, one per worker
  argPrev,    \* arguments and result of a direct call of rankBetween
  argNext,
  ret

vars == << projects, sections, tasks, subtasks, proc, argPrev, argNext, ret >>
db   == << projects, sections, tasks, subtasks >>
pure == << argPrev, argNext, ret >>

Procs == {"w1", "w2"}

\* a row read from storage (select: { rank: true }), or null
NoRow  == [found |-> FALSE, rank |-> NullStr]
Row(r) == [found |-> TRUE, rank |-> r]

\* a request body; hasTarget is ('targetSectionId' in body)
NoReq == [project |-> NULL, item |-> NULL, hasTarget |-> FALSE,
          target |-> NullRaw, beforeId |-> NullRaw, afterId |-> NullRaw]

Idle == [op |-> "none", pc |-> "idle", round |-> 0, req |-> NoReq,
         id |-> NULL, cur |-> NULL, curRank |-> NullStr, dest |-> NULL,
         beforeId |-> NULL, afterId |-> NULL, needB |-> FALSE, needA |-> FALSE,
         before |-> NoRow, after |-> NoRow, newRank |-> NullStr,
         attempt |-> 0, result |-> "none", seen |-> {},
         undoTasks |-> {}, undoSubs |-> {}]

Off == [Idle EXCEPT !.pc = "off"]

\* ------------------------------------------------------------------------
\* Storage queries
\* ------------------------------------------------------------------------
\* orderBy: { rank: 'asc' } / 'desc' then findFirst: the least / greatest rank
MinRank(S) == CHOOSE r \in S : \A q \in S : ~StrLt(q, r)
MaxRank(S) == CHOOSE r \in S : \A q \in S : ~StrLt(r, q)

FirstAsc(S)  == IF S = {} THEN NoRow ELSE Row(MinRank(S))
FirstDesc(S) == IF S = {} THEN NoRow ELSE Row(MaxRank(S))

\* ranks of the tasks of one container (project, section-or-null)
TaskRanks(pid, sec) ==
  { tasks[t].rank : t \in { x \in TaskIds : /\ tasks[x].exists
                                            /\ tasks[x].project = pid
                                            /\ tasks[x].section = sec } }

\* a neighbour lookup that is not scoped to the destination section
FindTaskAnySection(id, pid, sec) ==
  IF id \in TaskIds /\ tasks[id].exists /\ tasks[id].project = pid
    THEN Row(tasks[id].rank) ELSE NoRow

\* dT_TASK.findFirst({ where: { id, id_dt_project, id_dt_section } })
FindTaskIn(id, pid, sec) ==
  IF /\ id \in TaskIds
     /\ tasks[id].exists
     /\ tasks[id].project = pid
     /\ tasks[id].section = sec
    THEN Row(tasks[id].rank) ELSE NoRow

\* the next-below query ordered the wrong way (orderBy rank 'desc')
TaskNextBelowDesc(pid, sec, r) ==
  FirstDesc({ q \in TaskRanks(pid, sec) : StrLt(r, q) })

TaskNextBelow(pid, sec, r) ==
  FirstAsc({ q \in TaskRanks(pid, sec) : StrLt(r, q) })

TaskPrevAbove(pid, sec, r) ==
  FirstDesc({ q \in TaskRanks(pid, sec) : StrLt(q, r) })

\* the tail query with the order reversed (orderBy rank asc)
TaskMaxAscending(pid, sec) == FirstAsc(TaskRanks(pid, sec))

TaskMax(pid, sec) == FirstDesc(TaskRanks(pid, sec))

\* a section lookup that is not scoped to the project
FindSectionAnyProject(id, pid) ==
  IF id \in SectionIds /\ sections[id].exists
    THEN Row(sections[id].rank) ELSE NoRow

\* dT_SECTION.findFirst({ where: { id, id_dt_project } })
FindSectionIn(id, pid) ==
  IF id \in SectionIds /\ sections[id].exists /\ sections[id].project = pid
    THEN Row(sections[id].rank) ELSE NoRow

\* a task table without the uniqueness constraint
TaskNoConstraint(id, pid, sec, r) == FALSE

\* the uniqueness constraint on (container, rank) of the task table: the
\* write of (pid, sec, r) to row id is rejected with P2002
TaskUniqueViolation(id, pid, sec, r) ==
  \E t \in TaskIds \ {id} : /\ tasks[t].exists
                            /\ tasks[t].project = pid
                            /\ tasks[t].section = sec
                            /\ tasks[t].rank = r

\* ------------------------------------------------------------------------
\* Steps shared by the move operations
\* ------------------------------------------------------------------------
Finish(st, res) == [st EXCEPT !.pc = "done", !.result = res]

\* AfterNeighbors with the two boundaries passed in the wrong order
AfterNeighborsSwapped(st) ==
  IF st.needB \/ st.needA THEN st
  ELSE IF st.after.found /\ st.before.found
    THEN [st EXCEPT !.newRank = rankBetween(st.before.rank, st.after.rank),
                    !.pc = "write"]
    ELSE [st EXCEPT !.pc = "resolve"]

\* once both neighbour lookups have returned: with both rows present
\* computeNewRank needs no further read, otherwise it issues one query
AfterNeighbors(st) ==
  IF st.needB \/ st.needA THEN st
  ELSE IF st.after.found /\ st.before.found
    THEN [st EXCEPT !.newRank = rankBetween(st.after.rank, st.before.rank),
                    !.pc = "write"]
    ELSE [st EXCEPT !.pc = "resolve"]

\* Promise.all([beforeId ? find : null, afterId ? find : null])
EnterNeighbors(st) ==
  AfterNeighbors([st EXCEPT !.pc = "neighbors",
                            !.needB = (st.beforeId # NULL),
                            !.needA = (st.afterId # NULL)])

Pid(st) == normalizeGuid(st.req.project)

\* ------------------------------------------------------------------------
\* moveTask
\* ------------------------------------------------------------------------
\* the destination taken from the value of targetSectionId alone
DestSectionByValue(r, current) == normalizeGuid(r.target)

\* 'targetSectionId' in body ? normalizeGuid(body.targetSectionId) : in place
DestSection(r, current) ==
  IF r.hasTarget THEN normalizeGuid(r.target) ELSE current

\* if (destSectionId): null and the empty string skip the section lookup
Truthy(v) == v # NULL /\ v # ""

\* const sid = this.normalizeGuid(sectionId) of ensureSectionExists, for a
\* section id that is a string held by the program (a normalised target or
\* the id_dt_section of the stored task)
EnsureSectionId(v) == normalizeGuid(FromText(v))

\* validation of the ids, load of the task, choice of the destination; a
\* destination that does not normalise ends the call before the lookup

MoveTaskBegin(p, r, rnd) ==
  LET pid == normalizeGuid(r.project)
      tid == normalizeGuid(r.item)
      st0 == [Idle EXCEPT !.op = "moveTask", !.round = rnd, !.req = r,
                          !.id = tid]
  IN  IF pid = NULL \/ tid = NULL
        THEN proc' = [proc EXCEPT ![p] = Finish(st0, "BadRequest")]
      ELSE IF ~(tid \in TaskIds /\ tasks[tid].exists /\ tasks[tid].project = pid)
        THEN proc' = [proc EXCEPT ![p] = Finish(st0, "NotFound")]
      ELSE
        LET dest == DestSection(r, tasks[tid].section)
            beforeIdRaw == normalizeGuid(r.beforeId)
            afterIdRaw  == normalizeGuid(r.afterId)
            st1 == [st0 EXCEPT !.cur = tasks[tid].section,
                               !.curRank = tasks[tid].rank,
                               !.dest = dest,
                               !.beforeId = IF beforeIdRaw = tid THEN NULL
                                            ELSE beforeIdRaw,
                               !.afterId = IF afterIdRaw = tid THEN NULL
                                           ELSE afterIdRaw]
        IN  proc' = [proc EXCEPT ![p] =
                       IF ~Truthy(dest) THEN EnterNeighbors(st1)
                       ELSE IF EnsureSectionId(dest) = NULL
                         THEN Finish(st1, "BadRequest")
                       ELSE [st1 EXCEPT !.pc = "ensureSection"]]

MoveTaskEnsureSection(p) ==
  /\ proc[p].op = "moveTask" /\ proc[p].pc = "ensureSection"
  /\ LET st == proc[p]
     IN  proc' = [proc EXCEPT ![p] =
                    IF FindSectionIn(EnsureSectionId(st.dest), Pid(st)).found
                      THEN EnterNeighbors(st)
                      ELSE Finish(st, "NotFound")]
  /\ UNCHANGED << db, pure >>

MoveTaskReadBefore(p) ==
  /\ proc[p].op = "moveTask" /\ proc[p].pc = "neighbors" /\ proc[p].needB
  /\ LET st == proc[p]
     IN  proc' = [proc EXCEPT ![p] = AfterNeighbors(
                    [st EXCEPT !.before = FindTaskIn(st.beforeId, Pid(st), st.dest),
                               !.needB = FALSE])]
  /\ UNCHANGED << db, pure >>

MoveTaskReadAfter(p) ==
  /\ proc[p].op = "moveTask" /\ proc[p].pc = "neighbors" /\ proc[p].needA
  /\ LET st == proc[p]
     IN  proc' = [proc EXCEPT ![p] = AfterNeighbors(
                    [st EXCEPT !.after = FindTaskIn(st.afterId, Pid(st), st.dest),
                               !.needA = FALSE])]
  /\ UNCHANGED << db, pure >>

\* computeNewRank when at most one neighbour row was found
MoveTaskComputeRank(st) ==
  LET top    == st.after
      bottom == st.before
  IN  IF top.found /\ ~bottom.found
        THEN rankBetween(top.rank, TaskNextBelow(Pid(st), st.dest, top.rank).rank)
      ELSE IF ~top.found /\ bottom.found
        THEN rankBetween(TaskPrevAbove(Pid(st), st.dest, bottom.rank).rank,
                         bottom.rank)
      ELSE rankAfter(TaskMax(Pid(st), st.dest).rank)

\* the keys of the rows other than the moved one that the tail query
\* (no neighbour row found) ranges over; kept for the properties
MoveTaskSeen(st) ==
  IF st.after.found \/ st.before.found THEN {}
  ELSE { tasks[x].rank : x \in { y \in TaskIds \ {st.id} :
           /\ tasks[y].exists /\ tasks[y].project = Pid(st)
           /\ tasks[y].section = st.dest } }

MoveTaskResolve(p) ==
  /\ proc[p].op = "moveTask" /\ proc[p].pc = "resolve"
  /\ proc' = [proc EXCEPT ![p].newRank = MoveTaskComputeRank(proc[p]),
                          ![p].seen = MoveTaskSeen(proc[p]),
                          ![p].pc = "write"]
  /\ UNCHANGED << db, pure >>

\* the no-op guard: same section and same rank, the row is only re-read
MoveTaskIsNoop(st) == st.cur = st.dest /\ st.curRank = st.newRank

MoveTaskNoop(p) ==
  /\ proc[p].op = "moveTask" /\ proc[p].pc = "write"
  /\ MoveTaskIsNoop(proc[p])
  /\ proc' = [proc EXCEPT ![p] =
                IF tasks[proc[p].id].exists THEN Finish(proc[p], "noop")
                ELSE Finish(proc[p], "NotFound")]
  /\ UNCHANGED << db, pure >>

\* an update that writes the section and leaves the rank for a later write
MovedTaskRowSectionOnly(row, st) == [row EXCEPT !.section = st.dest]

\* data: { id_dt_section: destSectionId ?? null, rank: newRank }
MovedTaskRow(row, st) ==
  [row EXCEPT !.section = st.dest, !.rank = st.newRank]

\* dT_TASK.update({ where: { id }, data: { id_dt_section, rank } })
MoveTaskUpdate(p) ==
  /\ proc[p].op = "moveTask" /\ proc[p].pc = "write"
  /\ ~MoveTaskIsNoop(proc[p])
  /\ LET st == proc[p]
         t  == st.id
     IN  IF ~tasks[t].exists
           THEN /\ proc' = [proc EXCEPT ![p] = Finish(st, "P2025")]
                /\ UNCHANGED tasks
         ELSE IF TaskUniqueViolation(t, tasks[t].project, st.dest, st.newRank)
           THEN /\ proc' = [proc EXCEPT ![p] = Finish(st, "P2002")]
                /\ UNCHANGED tasks
         ELSE /\ tasks' = [tasks EXCEPT ![t] = MovedTaskRow(tasks[t], st)]
              /\ proc' = [proc EXCEPT ![p] = Finish(st, "ok")]
  /\ UNCHANGED << projects, sections, subtasks, pure >>

\* ------------------------------------------------------------------------
\* moveSubTask
\* ------------------------------------------------------------------------
SubRanks(tid) ==
  { subtasks[u].rank : u \in { x \in SubIds : /\ subtasks[x].exists
                                              /\ subtasks[x].task = tid } }

\* fetchNeighbor: findUnique by id, dropped unless it belongs to the task
FetchNeighbor(nid, tid) ==
  IF nid = NULL THEN NoRow
  ELSE IF nid \in SubIds /\ subtasks[nid].exists /\ subtasks[nid].task = tid
    THEN Row(subtasks[nid].rank)
    ELSE NoRow

SubNextBelow(tid, r) == FirstAsc({ q \in SubRanks(tid) : StrLt(r, q) })
SubPrevAbove(tid, r) == FirstDesc({ q \in SubRanks(tid) : StrLt(q, r) })
SubMax(tid)          == FirstDesc(SubRanks(tid))

\* the uniqueness constraint on (task, rank) of the subtask table
SubUniqueViolation(id, tid, r) ==
  \E u \in SubIds \ {id} : /\ subtasks[u].exists
                           /\ subtasks[u].task = tid
                           /\ subtasks[u].rank = r

MoveSubTaskBegin(p, r, rnd) ==
  LET sid == normalizeGuid(r.item)
      st0 == [Idle EXCEPT !.op = "moveSubTask", !.round = rnd, !.req = r,
                          !.id = sid]
  IN  IF sid = NULL
        THEN proc' = [proc EXCEPT ![p] = Finish(st0, "BadRequest")]
      ELSE IF ~(sid \in SubIds /\ subtasks[sid].exists)
        THEN proc' = [proc EXCEPT ![p] = Finish(st0, "NotFound")]
      ELSE IF subtasks[sid].task = NULL
        THEN proc' = [proc EXCEPT ![p] = Finish(st0, "BadRequest")]
      ELSE
        LET tid == subtasks[sid].task
            beforeIdRaw == normalizeGuid(r.beforeId)
            afterIdRaw  == normalizeGuid(r.afterId)
            st1 == [st0 EXCEPT !.cur = tid, !.dest = tid,
                               !.curRank = subtasks[sid].rank,
                               !.attempt = 1,
                               !.beforeId = IF beforeIdRaw = sid THEN NULL
                                            ELSE beforeIdRaw,
                               !.afterId = IF afterIdRaw = sid THEN NULL
                                           ELSE afterIdRaw]
        IN  proc' = [proc EXCEPT ![p] = EnterNeighbors(st1)]

MoveSubTaskReadBefore(p) ==
  /\ proc[p].op = "moveSubTask" /\ proc[p].pc = "neighbors" /\ proc[p].needB
  /\ LET st == proc[p]
     IN  proc' = [proc EXCEPT ![p] = AfterNeighbors(
                    [st EXCEPT !.before = FetchNeighbor(st.beforeId, st.dest),
                               !.needB = FALSE])]
  /\ UNCHANGED << db, pure >>

MoveSubTaskReadAfter(p) ==
  /\ proc[p].op = "moveSubTask" /\ proc[p].pc = "neighbors" /\ proc[p].needA
  /\ LET st == proc[p]
     IN  proc' = [proc EXCEPT ![p] = AfterNeighbors(
                    [st EXCEPT !.after = FetchNeighbor(st.afterId, st.dest),
                               !.needA = FALSE])]
  /\ UNCHANGED << db, pure >>

MoveSubTaskComputeRank(st) ==
  LET top    == st.after
      bottom == st.before
      tid    == st.dest
  IN  IF top.found /\ ~bottom.found
        THEN rankBetween(top.rank, SubNextBelow(tid, top.rank).rank)
      ELSE IF ~top.found /\ bottom.found
        THEN rankBetween(SubPrevAbove(tid, bottom.rank).rank, bottom.rank)
      ELSE rankAfter(SubMax(tid).rank)

MoveSubTaskSeen(st) ==
  IF st.after.found \/ st.before.found THEN {}
  ELSE { subtasks[x].rank : x \in { y \in SubIds \ {st.id} :
           subtasks[y].exists /\ subtasks[y].task = st.dest } }

MoveSubTaskResolve(p) ==
  /\ proc[p].op = "moveSubTask" /\ proc[p].pc = "resolve"
  /\ proc' = [proc EXCEPT ![p].newRank = MoveSubTaskComputeRank(proc[p]),
                          ![p].seen = MoveSubTaskSeen(proc[p]),
                          ![p].pc = "write"]
  /\ UNCHANGED << db, pure >>

MoveSubTaskIsNoop(st) == st.curRank = st.newRank

MoveSubTaskNoop(p) ==
  /\ proc[p].op = "moveSubTask" /\ proc[p].pc = "write"
  /\ MoveSubTaskIsNoop(proc[p])
  /\ proc' = [proc EXCEPT ![p] =
                IF subtasks[proc[p].id].exists THEN Finish(proc[p], "noop")
                ELSE Finish(proc[p], "NotFound")]
  /\ UNCHANGED << db, pure >>

\* a retry loop that does not advance its counter
MoveSubTaskRetrySameAttempt(st) ==
  AfterNeighbors([st EXCEPT !.pc = "neighbors"])

\* the next turn of the retry loop: computeNewRank runs again with the
\* before / after rows fetched before the loop
MoveSubTaskRetry(st) ==
  AfterNeighbors([st EXCEPT !.attempt = st.attempt + 1, !.pc = "neighbors"])

MoveSubTaskUpdate(p) ==
  /\ proc[p].op = "moveSubTask" /\ proc[p].pc = "write"
  /\ ~MoveSubTaskIsNoop(proc[p])
  /\ LET st == proc[p]
         u  == st.id
     IN  IF ~subtasks[u].exists
           THEN /\ proc' = [proc EXCEPT ![p] = Finish(st, "P2025")]
                /\ UNCHANGED subtasks
         ELSE IF SubUniqueViolation(u, subtasks[u].task, st.newRank)
           THEN /\ proc' = [proc EXCEPT ![p] =
                              IF st.attempt < MAX_RETRY THEN MoveSubTaskRetry(st)
                              ELSE Finish(st, "P2002")]
                /\ UNCHANGED subtasks
         ELSE /\ subtasks' = [subtasks EXCEPT ![u].rank = st.newRank]
              /\ proc' = [proc EXCEPT ![p] = Finish(st, "ok")]
  /\ UNCHANGED << projects, sections, tasks, pure >>

\* ------------------------------------------------------------------------
\* moveSection
\* ------------------------------------------------------------------------
SectionRanks(pid) ==
  { sections[x].rank : x \in { y \in SectionIds : /\ sections[y].exists
                                                  /\ sections[y].project = pid } }

SectionMax(pid) == FirstDesc(SectionRanks(pid))

\* the uniqueness constraint on (project, rank) of the section table
SectionUniqueViolation(id, pid, r) ==
  \E x \in SectionIds \ {id} : /\ sections[x].exists
                               /\ sections[x].project = pid
                               /\ sections[x].rank = r

\* both lookups done: rankBetween(after?.rank ?? null, before?.rank ?? null)
AfterSectionNeighbors(st) ==
  IF st.needB \/ st.needA THEN st
  ELSE [st EXCEPT !.newRank = rankBetween(st.after.rank, st.before.rank),
                  !.pc = "write"]

\* validation and ensureSectionExists, then the hints are normalised
MoveSectionBegin(p, r, rnd) ==
  LET pid == normalizeGuid(r.project)
      sid == normalizeGuid(r.item)
      st0 == [Idle EXCEPT !.op = "moveSection", !.round = rnd, !.req = r,
                          !.id = sid]
  IN  IF pid = NULL \/ sid = NULL
        THEN proc' = [proc EXCEPT ![p] = Finish(st0, "BadRequest")]
      ELSE IF ~FindSectionIn(sid, pid).found
        THEN proc' = [proc EXCEPT ![p] = Finish(st0, "NotFound")]
      ELSE
        LET st1 == [st0 EXCEPT !.cur = pid, !.dest = pid,
                               !.curRank = sections[sid].rank,
                               !.beforeId = normalizeGuid(r.beforeId),
                               !.afterId = normalizeGuid(r.afterId)]
        IN  proc' = [proc EXCEPT ![p] = AfterSectionNeighbors(
                       [st1 EXCEPT !.pc = "neighbors",
                                   !.needB = (st1.beforeId # NULL),
                                   !.needA = (st1.afterId # NULL)])]

MoveSectionReadBefore(p) ==
  /\ proc[p].op = "moveSection" /\ proc[p].pc = "neighbors" /\ proc[p].needB
  /\ LET st == proc[p]
     IN  proc' = [proc EXCEPT ![p] = AfterSectionNeighbors(
                    [st EXCEPT !.before = FindSectionIn(st.beforeId, st.dest),
                               !.needB = FALSE])]
  /\ UNCHANGED << db, pure >>

MoveSectionReadAfter(p) ==
  /\ proc[p].op = "moveSection" /\ proc[p].pc = "neighbors" /\ proc[p].needA
  /\ LET st == proc[p]
     IN  proc' = [proc EXCEPT ![p] = AfterSectionNeighbors(
                    [st EXCEPT !.after = FindSectionIn(st.afterId, st.dest),
                               !.needA = FALSE])]
  /\ UNCHANGED << db, pure >>

\* dT_SECTION.update({ where: { id }, data: { rank } }), no no-op guard
MoveSectionUpdate(p) ==
  /\ proc[p].op = "moveSection" /\ proc[p].pc = "write"
  /\ LET st == proc[p]
         x  == st.id
     IN  IF ~sections[x].exists
           THEN /\ proc' = [proc EXCEPT ![p] = Finish(st, "P2025")]
                /\ UNCHANGED sections
         ELSE IF SectionUniqueViolation(x, sections[x].project, st.newRank)
           THEN /\ proc' = [proc EXCEPT ![p] = Finish(st, "P2002")]
                /\ UNCHANGED sections
         ELSE /\ sections' = [sections EXCEPT ![x].rank = st.newRank]
              /\ proc' = [proc EXCEPT ![p] = Finish(st, "ok")]
  /\ UNCHANGED << projects, tasks, subtasks, pure >>

\* ------------------------------------------------------------------------
\* createSection, createTask, addSubTask
\* ------------------------------------------------------------------------
\* the calls of one operation that are under way
InFlight(op) == { q \in Procs : proc[q].op = op /\ proc[q].pc # "done" }

\* the ids not handed out yet; the id of a deleted row is not used again
FreeProjects == { x \in ProjectIds : ~projects[x].exists /\ ~projects[x].deleted }
FreeSections == { x \in SectionIds : ~sections[x].exists /\ ~sections[x].deleted }
FreeTasks    == { x \in TaskIds : ~tasks[x].exists /\ ~tasks[x].deleted }
FreeSubs     == { x \in SubIds : ~subtasks[x].exists /\ ~subtasks[x].deleted }

\* the id the storage gives to a new row
FreshId(order, free) ==
  order[CHOOSE i \in DOMAIN order :
          /\ order[i] \in free
          /\ \A j \in DOMAIN order : order[j] \in free => i <= j]

\* the literal '8888888888888888' of createSection
DefaultSectionRank == << 8, 8, 8, 8, 8, 8, 8, 8, 8, 8, 8, 8, 8, 8, 8, 8 >>

CreateSectionBegin(p, r) ==
  /\ Cardinality(FreeSections) > Cardinality(InFlight("createSection"))
  /\ LET pid  == Text(r.project)
         last == SectionMax(pid)
     IN  proc' = [proc EXCEPT ![p] =
                    [Idle EXCEPT !.op = "createSection", !.round = 1, !.req = r,
                                 !.dest = pid, !.attempt = 0, !.pc = "create",
                                 !.newRank = IF last.found THEN rankAfter(last.rank)
                                             ELSE DefaultSectionRank]]

\* dT_SECTION.create inside the loop for (i = 0; i < 3; i += 1)
CreateSectionCreate(p) ==
  /\ proc[p].op = "createSection" /\ proc[p].pc = "create"
  /\ LET st == proc[p]
         x  == FreshId(SectionOrder, FreeSections)
     IN  IF SectionUniqueViolation(NULL, st.dest, st.newRank)
           THEN /\ proc' = [proc EXCEPT ![p] =
                              IF st.attempt < 2 THEN [st EXCEPT !.pc = "refetch"]
                              ELSE Finish(st, "P2002")]
                /\ UNCHANGED sections
           ELSE /\ sections' = [sections EXCEPT ![x] =
                                  [exists |-> TRUE, project |-> st.dest,
                                   rank |-> st.newRank, data |-> 0,
                                   deleted |-> FALSE]]
                /\ proc' = [proc EXCEPT ![p] = Finish([st EXCEPT !.id = x], "ok")]
  /\ UNCHANGED << projects, tasks, subtasks, pure >>

\* a catch branch that tries the same rank again
CreateSectionRefetchSameKey(p) ==
  /\ proc[p].op = "createSection" /\ proc[p].pc = "refetch"
  /\ proc' = [proc EXCEPT ![p].attempt = proc[p].attempt + 1,
                          ![p].pc = "create"]
  /\ UNCHANGED << db, pure >>

\* the catch branch: re-fetch the maximum, rank = rankAfter(next?.rank ?? rank)
CreateSectionRefetch(p) ==
  /\ proc[p].op = "createSection" /\ proc[p].pc = "refetch"
  /\ LET st   == proc[p]
         next == SectionMax(st.dest)
     IN  proc' = [proc EXCEPT ![p] =
                    [st EXCEPT !.newRank = rankAfter(IF next.found THEN next.rank
                                                     ELSE st.newRank),
                               !.attempt = st.attempt + 1,
                               !.pc = "create"]]
  /\ UNCHANGED << db, pure >>

\* data.section ?? null: the value is used as it was sent
CreateTaskSection(r) == Text(r.target)

\* dT_PROJECT.findUnique({ where: { id } })
FindProject(pid) == pid \in ProjectIds /\ projects[pid].exists

\* ensureProjectExists: one read of the project table
CreateTaskBegin(p, r) ==
  /\ Cardinality(FreeTasks) > Cardinality(InFlight("createTask"))
  /\ LET pid == Text(r.project)
         st0 == [Idle EXCEPT !.op = "createTask", !.round = 1, !.req = r,
                             !.cur = pid, !.dest = CreateTaskSection(r)]
     IN  proc' = [proc EXCEPT ![p] =
                    IF FindProject(pid) THEN [st0 EXCEPT !.pc = "last"]
                    ELSE Finish(st0, "NotFound")]

\* the lookup of the last task of the container, then the choice of the key
CreateTaskReadLast(p) ==
  /\ proc[p].op = "createTask" /\ proc[p].pc = "last"
  /\ LET st   == proc[p]
         last == TaskMax(st.cur, st.dest)
     IN  proc' = [proc EXCEPT ![p] =
                    [st EXCEPT !.pc = "create",
                               !.newRank = IF ~last.found \/ last.rank = NullStr
                                             THEN rankFirst
                                             ELSE rankAfter(last.rank)]]
  /\ UNCHANGED << db, pure >>

CreateTaskCreate(p) ==
  /\ proc[p].op = "createTask" /\ proc[p].pc = "create"
  /\ LET st == proc[p]
         t  == FreshId(TaskOrder, FreeTasks)
     IN  IF TaskUniqueViolation(NULL, st.cur, st.dest, st.newRank)
           THEN /\ proc' = [proc EXCEPT ![p] = Finish(st, "P2002")]
                /\ UNCHANGED tasks
           ELSE /\ tasks' = [tasks EXCEPT ![t] =
                               [exists |-> TRUE, project |-> st.cur,
                                section |-> st.dest, rank |-> st.newRank, data |-> 0,
                                   deleted |-> FALSE]]
                /\ proc' = [proc EXCEPT ![p] = Finish([st EXCEPT !.id = t], "ok")]
  /\ UNCHANGED << projects, sections, subtasks, pure >>

AddSubTaskBegin(p, r) ==
  /\ Cardinality(FreeSubs) > Cardinality(InFlight("addSubTask"))
  /\ LET tid == Text(r.item)
         st0 == [Idle EXCEPT !.op = "addSubTask", !.round = 1, !.req = r,
                             !.dest = tid]
     IN  proc' = [proc EXCEPT ![p] =
                    IF tid \in TaskIds /\ tasks[tid].exists
                      THEN [st0 EXCEPT !.pc = "resolve"]
                      ELSE Finish(st0, "NotFound")]

AddSubTaskReadMax(p) ==
  /\ proc[p].op = "addSubTask" /\ proc[p].pc = "resolve"
  /\ proc' = [proc EXCEPT ![p].newRank = rankAfter(SubMax(proc[p].dest).rank),
                          ![p].pc = "create"]
  /\ UNCHANGED << db, pure >>

AddSubTaskCreate(p) ==
  /\ proc[p].op = "addSubTask" /\ proc[p].pc = "create"
  /\ LET st == proc[p]
         u  == FreshId(SubOrder, FreeSubs)
     IN  IF SubUniqueViolation(NULL, st.dest, st.newRank)
           THEN /\ proc' = [proc EXCEPT ![p] = Finish(st, "P2002")]
                /\ UNCHANGED subtasks
           ELSE /\ subtasks' = [subtasks EXCEPT ![u] =
                                  [exists |-> TRUE, task |-> st.dest,
                                   rank |-> st.newRank, data |-> 0,
                                   deleted |-> FALSE]]
                /\ proc' = [proc EXCEPT ![p] = Finish([st EXCEPT !.id = u], "ok")]
  /\ UNCHANGED << projects, sections, tasks, pure >>

\* ------------------------------------------------------------------------
\* Requests and initial storage contents
\* ------------------------------------------------------------------------
\* sample keys lie within LayoutSpan of either end of the key space
LayoutSpan == 2

\* sample arguments of rankBetween lie within PureSpan of their anchors
PureSpan == 3

RECURSIVE NatDigits(_)
NatDigits(n) == IF n < 10 THEN << n >> ELSE Append(NatDigits(n \div 10), n % 10)

\* the key of value n, and the key of value MAX - n (n <= 9)
LowKey(n)  == pad(NatDigits(n))
HighKey(n) == [i \in 1..WIDTH |-> IF i = WIDTH THEN 9 - n ELSE 9]

LayoutKeys ==
  { LowKey(n) : n \in 0..LayoutSpan } \cup { HighKey(n) : n \in 0..LayoutSpan }
    \cup { DefaultSectionRank }

\* three distinct keys in ascending order
Triples(K) == { << a, b, c >> \in K \X K \X K : StrLt(a, b) /\ StrLt(b, c) }

\* a row has its container, its rank and, as data, the columns that play no
\* part in the order (name, desc, status, dueDate)
MkProjects(ids) ==
  [x \in ProjectIds |-> [exists |-> x \in ids, deleted |-> FALSE]]

MkSections(keys) ==
  [x \in SectionIds |->
     LET i == IndexOf(SectionOrder, x)
     IN  IF i <= Len(keys)
           THEN [exists |-> TRUE, project |-> "p1", rank |-> keys[i],
                 data |-> 0, deleted |-> FALSE]
           ELSE [exists |-> FALSE, project |-> NULL, rank |-> NullStr,
                 data |-> 0, deleted |-> FALSE]]

MkTasks(keys, place) ==
  [x \in TaskIds |->
     LET i == IndexOf(TaskOrder, x)
     IN  IF i <= Len(keys)
           THEN [exists |-> TRUE, project |-> "p1", section |-> place[i],
                 rank |-> keys[i], data |-> 0,
                 deleted |-> FALSE]
           ELSE [exists |-> FALSE, project |-> NULL, section |-> NULL,
                 rank |-> NullStr, data |-> 0,
                 deleted |-> FALSE]]

MkSubs(keys, parent) ==
  [x \in SubIds |->
     LET i == IndexOf(SubOrder, x)
     IN  IF i <= Len(keys)
           THEN [exists |-> TRUE, task |-> parent[i], rank |-> keys[i],
                 data |-> 0, deleted |-> FALSE]
           ELSE [exists |-> FALSE, task |-> NULL, rank |-> NullStr,
                 data |-> 0, deleted |-> FALSE]]

Req(pr, it, has, tg, b, a) ==
  [project |-> pr, item |-> it, hasTarget |-> has, target |-> tg,
   beforeId |-> b, afterId |-> a]

ExistingSections == { x \in SectionIds : sections[x].exists }
ExistingTasks    == { x \in TaskIds : tasks[x].exists }
ExistingSubs     == { x \in SubIds : subtasks[x].exists }

\* a hint is null or names a row of the table
Hints(ids) == { NullRaw } \cup { Raw(x) : x \in ids }

MoveTaskReqs ==
  { Req(Raw("p1"), Raw(t), tg[1], tg[2], b, a) :
      t \in ExistingTasks,
      tg \in { << FALSE, NullRaw >> } \cup
             { << TRUE, x >> : x \in Hints(ExistingSections) },
      b \in Hints(ExistingTasks), a \in Hints(ExistingTasks) }

MoveSubTaskReqs ==
  { Req(NullRaw, Raw(u), FALSE, NullRaw, b, a) :
      u \in ExistingSubs, b \in Hints(ExistingSubs), a \in Hints(ExistingSubs) }

MoveSectionReqs ==
  { Req(Raw("p1"), Raw(x), FALSE, NullRaw, b, a) :
      x \in ExistingSections,
      b \in Hints(ExistingSections), a \in Hints(ExistingSections) }

CreateSectionReqs == { Req(Raw("p1"), NullRaw, FALSE, NullRaw, NullRaw, NullRaw) }

CreateTaskReqs ==
  { Req(Raw("p1"), NullRaw, TRUE, x, NullRaw, NullRaw) :
      x \in Hints(ExistingSections) }

AddSubTaskReqs ==
  { Req(NullRaw, Raw(t), FALSE, NullRaw, NullRaw, NullRaw) : t \in ExistingTasks }

\* ------------------------------------------------------------------------
\* Calls
\* ------------------------------------------------------------------------
StartMoveTask(p) ==
  /\ proc[p].pc = "idle"
  /\ \E r \in MoveTaskReqs : MoveTaskBegin(p, r, 1)
  /\ UNCHANGED << db, pure >>

StartMoveSubTask(p) ==
  /\ proc[p].pc = "idle"
  /\ \E r \in MoveSubTaskReqs : MoveSubTaskBegin(p, r, 1)
  /\ UNCHANGED << db, pure >>

StartMoveSection(p) ==
  /\ proc[p].pc = "idle"
  /\ \E r \in MoveSectionReqs : MoveSectionBegin(p, r, 1)
  /\ UNCHANGED << db, pure >>

StartCreateSection(p) ==
  /\ proc[p].pc = "idle"
  /\ \E r \in CreateSectionReqs : CreateSectionBegin(p, r)
  /\ UNCHANGED << db, pure >>

StartCreateTask(p) ==
  /\ proc[p].pc = "idle"
  /\ \E r \in CreateTaskReqs : CreateTaskBegin(p, r)
  /\ UNCHANGED << db, pure >>

StartAddSubTask(p) ==
  /\ proc[p].pc = "idle"
  /\ \E r \in AddSubTaskReqs : AddSubTaskBegin(p, r)
  /\ UNCHANGED << db, pure >>

\* the same request sent again once the first call has returned
RepeatMoveTask(p) ==
  /\ proc[p].pc = "done" /\ proc[p].round = 1 /\ proc[p].op = "moveTask"
  /\ MoveTaskBegin(p, proc[p].req, 2)
  /\ UNCHANGED << db, pure >>

RepeatMoveSubTask(p) ==
  /\ proc[p].pc = "done" /\ proc[p].round = 1 /\ proc[p].op = "moveSubTask"
  /\ MoveSubTaskBegin(p, proc[p].req, 2)
  /\ UNCHANGED << db, pure >>

\* a direct call of rankBetween(argPrev, argNext)
CallRankBetween ==
  /\ ret = NullStr
  /\ ret' = rankBetween(argPrev, argNext)
  /\ UNCHANGED << db, proc, argPrev, argNext >>

\* ------------------------------------------------------------------------
\* Specifications
\* ------------------------------------------------------------------------
\* two workers, one call each, over one storage content
ConcLayouts == { << LowKey(0), LowKey(1), DefaultSectionRank >> }

Init ==
  /\ \E T \in ConcLayouts :
       /\ sections = MkSections(<< T[1], T[2] >>)
       /\ tasks = MkTasks(T, << "s1", "s1", "s1" >>)
       /\ subtasks = MkSubs(<< T[1], T[2] >>, << "t1", "t1" >>)
  /\ proc = [p \in Procs |-> Idle]
  /\ projects = MkProjects({"p1"})
  /\ argPrev = NullStr /\ argNext = NullStr /\ ret = NullStr

Step(p) ==
  \/ StartMoveTask(p)
  \/ MoveTaskEnsureSection(p)
  \/ MoveTaskReadBefore(p)
  \/ MoveTaskReadAfter(p)
  \/ MoveTaskResolve(p)
  \/ MoveTaskNoop(p)
  \/ MoveTaskUpdate(p)
  \/ StartMoveSubTask(p)
  \/ MoveSubTaskReadBefore(p)
  \/ MoveSubTaskReadAfter(p)
  \/ MoveSubTaskResolve(p)
  \/ MoveSubTaskNoop(p)
  \/ MoveSubTaskUpdate(p)
  \/ StartMoveSection(p)
  \/ MoveSectionReadBefore(p)
  \/ MoveSectionReadAfter(p)
  \/ MoveSectionUpdate(p)
  \/ StartCreateSection(p)
  \/ CreateSectionCreate(p)
  \/ CreateSectionRefetch(p)
  \/ StartCreateTask(p)
  \/ CreateTaskReadLast(p)
  \/ CreateTaskCreate(p)
  \/ StartAddSubTask(p)
  \/ AddSubTaskReadMax(p)
  \/ AddSubTaskCreate(p)

Next == \E p \in Procs : Step(p)

Spec == Init /\ [][Next]_vars

\* one worker, calls one after the other: a call, then possibly the same
\* request again, over a range of storage contents
InitSeq ==
  /\ \E T \in Triples(LayoutKeys) :
       /\ sections = MkSections(T)
       /\ tasks = MkTasks(T \o << DefaultSectionRank >>,
                          << "s1", "s1", "s1", NULL >>)
       /\ subtasks = MkSubs(T \o << DefaultSectionRank >>,
                            << "t1", "t1", "t1", "t2" >>)
  /\ proc = [p \in Procs |-> IF p = "w1" THEN Idle ELSE Off]
  /\ projects = MkProjects({"p1"})
  /\ argPrev = NullStr /\ argNext = NullStr /\ ret = NullStr

NextSeq ==
  \E p \in Procs : \/ Step(p)
                   \/ RepeatMoveTask(p)
                   \/ RepeatMoveSubTask(p)

SpecSeq == InitSeq /\ [][NextSeq]_vars

\* rankBetween on its own, over sample boundary keys
PureKeys ==
  { LowKey(n) : n \in 0..PureSpan } \cup { HighKey(n) : n \in 0..PureSpan }
    \cup { pad(BigAdd(BigDiv2(MAX), NatDigits(n))) : n \in 0..PureSpan }
    \cup { DefaultSectionRank, NullStr }

InitPure ==
  /\ projects = MkProjects({"p1"})
  /\ sections = MkSections(<< >>)
  /\ tasks = MkTasks(<< >>, << >>)
  /\ subtasks = MkSubs(<< >>, << >>)
  /\ proc = [p \in Procs |-> Off]
  /\ argPrev \in PureKeys /\ argNext \in PureKeys
  /\ ret = NullStr

NextPure == CallRankBetween

SpecPure == InitPure /\ [][NextPure]_vars

\* ------------------------------------------------------------------------
\* Calls one after the other, with ids in every form a request can carry
\* ------------------------------------------------------------------------
\* ids of rows that exist, that belong to another project / task, and that
\* name no row at all
RawTaskHints ==
  { NullRaw, Malformed, Raw("t1"), Upper("t2"), Raw("t3"), Raw("t4"), Raw("t5") }

RawTargets ==
  { << FALSE, NullRaw >> } \cup
  { << TRUE, x >> : x \in { NullRaw, Malformed, Raw("s1"), Prefixed("s2"),
                            Raw("s3"), Raw("s4") } }

RawMoveTaskReqs ==
  { Req(pr, it, tg[1], tg[2], b, a) :
      pr \in { Raw("p1"), Raw("p2"), Malformed },
      it \in { Raw("t1"), Raw("t3"), Raw("t5"), Malformed },
      tg \in RawTargets,
      b \in RawTaskHints, a \in RawTaskHints }

RawSubHints ==
  { NullRaw, Malformed, Raw("u1"), Upper("u2"), Raw("u3"), Raw("u5") }

RawMoveSubTaskReqs ==
  { Req(NullRaw, it, FALSE, NullRaw, b, a) :
      it \in { Raw("u1"), Raw("u2"), Raw("u3"), Raw("u5"), Malformed },
      b \in RawSubHints, a \in RawSubHints }

RawSectionHints == { NullRaw, Malformed, Raw("s1"), Raw("s2"), Raw("s3") }

RawMoveSectionReqs ==
  { Req(pr, it, FALSE, NullRaw, b, a) :
      pr \in { Raw("p1"), Raw("p2") },
      it \in { Raw("s1"), Prefixed("s2"), Raw("s3"), Raw("s4"), Malformed },
      b \in RawSectionHints, a \in RawSectionHints }

\* createTask for a project that exists or not, with a section that is
\* null, the empty string, the id of a section, or that id with a prefix
RawCreateTaskReqs ==
  { Req(pr, NullRaw, TRUE, x, NullRaw, NullRaw) :
      pr \in { Raw("p1"), Raw("p3") },
      x \in { NullRaw, EmptyRaw, Malformed, Raw("s1"), Prefixed("s1"),
               Upper("s1") } }

StartMoveTaskRaw(p) ==
  /\ proc[p].pc = "idle"
  /\ \E r \in RawMoveTaskReqs : MoveTaskBegin(p, r, 1)
  /\ UNCHANGED << db, pure >>

StartMoveSubTaskRaw(p) ==
  /\ proc[p].pc = "idle"
  /\ \E r \in RawMoveSubTaskReqs : MoveSubTaskBegin(p, r, 1)
  /\ UNCHANGED << db, pure >>

StartMoveSectionRaw(p) ==
  /\ proc[p].pc = "idle"
  /\ \E r \in RawMoveSectionReqs : MoveSectionBegin(p, r, 1)
  /\ UNCHANGED << db, pure >>

StartCreateTaskRaw(p) ==
  /\ proc[p].pc = "idle"
  /\ \E r \in RawCreateTaskReqs : CreateTaskBegin(p, r)
  /\ UNCHANGED << db, pure >>

\* createTask has returned and the caller sends its next request
NextCall(p) ==
  /\ proc[p].pc = "done" /\ proc[p].op = "createTask"
  /\ proc' = [proc EXCEPT ![p] = Idle]
  /\ UNCHANGED << db, pure >>

\* the steps of a call that is under way
Continue(p) ==
  \/ MoveTaskEnsureSection(p)
  \/ MoveTaskReadBefore(p)
  \/ MoveTaskReadAfter(p)
  \/ MoveTaskResolve(p)
  \/ MoveTaskNoop(p)
  \/ MoveTaskUpdate(p)
  \/ MoveSubTaskReadBefore(p)
  \/ MoveSubTaskReadAfter(p)
  \/ MoveSubTaskResolve(p)
  \/ MoveSubTaskNoop(p)
  \/ MoveSubTaskUpdate(p)
  \/ MoveSectionReadBefore(p)
  \/ MoveSectionReadAfter(p)
  \/ MoveSectionUpdate(p)
  \/ CreateSectionCreate(p)
  \/ CreateSectionRefetch(p)
  \/ CreateTaskReadLast(p)
  \/ CreateTaskCreate(p)
  \/ AddSubTaskReadMax(p)
  \/ AddSubTaskCreate(p)

\* keys of the two rows of a populated container
CallLayouts ==
  { << LowKey(0), LowKey(n) >> : n \in 1..LayoutSpan } \cup
  { << HighKey(1), HighKey(0) >>, << LowKey(0), DefaultSectionRank >> }

\* project p1 has section s1, empty, and section s2 with tasks t1 and t2; its
\* unlocated bucket is empty; project p2 has section s3 with task t3.
InitCalls ==
  /\ \E T \in CallLayouts :
       /\ sections =
            [MkSections(<< T[1], T[2], DefaultSectionRank >>)
               EXCEPT !["s3"].project = "p2"]
       /\ tasks =
            [MkTasks(<< T[1], T[2], DefaultSectionRank >>,
                     << "s2", "s2", "s3" >>)
               EXCEPT !["t3"].project = "p2"]
       /\ subtasks = MkSubs(<< T[1], T[2], DefaultSectionRank >>,
                            << "t1", "t1", "t2" >>)
  /\ proc = [p \in Procs |-> IF p = "w1" THEN Idle ELSE Off]
  /\ projects = MkProjects({"p1", "p2"})
  /\ argPrev = NullStr /\ argNext = NullStr /\ ret = NullStr

NextCalls ==
  \E p \in Procs : \/ StartMoveTaskRaw(p)
                   \/ StartMoveSubTaskRaw(p)
                   \/ StartMoveSectionRaw(p)
                   \/ StartCreateSection(p)
                   \/ StartCreateTaskRaw(p)
                   \/ StartAddSubTask(p)
                   \/ NextCall(p)
                   \/ Continue(p)

SpecCalls == InitCalls /\ [][NextCalls]_vars

\* ------------------------------------------------------------------------
\* Two workers on the sections of one project
\* ------------------------------------------------------------------------
\* the greatest section keys lie within SectionSpan of the top of the key space
SectionSpan == 3

SectionKeys ==
  { LowKey(0), DefaultSectionRank } \cup { HighKey(n) : n \in 0..SectionSpan }

\* no section, one section, or two sections with ascending keys
SectionLayouts ==
  { << >> } \cup { << a >> : a \in SectionKeys } \cup
  { L \in { << a, b >> : a \in SectionKeys, b \in SectionKeys } :
      StrLt(L[1], L[2]) }

InitSections ==
  /\ \E L \in SectionLayouts : sections = MkSections(L)
  /\ tasks = MkTasks(<< >>, << >>)
  /\ subtasks = MkSubs(<< >>, << >>)
  /\ proc = [p \in Procs |-> Idle]
  /\ projects = MkProjects({"p1"})
  /\ argPrev = NullStr /\ argNext = NullStr /\ ret = NullStr

NextSections ==
  \E p \in Procs : \/ StartCreateSection(p)
                   \/ CreateSectionCreate(p)
                   \/ CreateSectionRefetch(p)
                   \/ StartMoveSection(p)
                   \/ MoveSectionReadBefore(p)
                   \/ MoveSectionReadAfter(p)
                   \/ MoveSectionUpdate(p)

SpecSections == InitSections /\ [][NextSections]_vars

\* ------------------------------------------------------------------------
\* Two workers moving the tasks of one section and the subtasks of one task
\* whose keys lie at the top of the key space
\* ------------------------------------------------------------------------
TailSpan == 2

TailKeys == { LowKey(0) } \cup { HighKey(n) : n \in 0..TailSpan }

TailLayouts ==
  { L \in { << a, b >> : a \in TailKeys, b \in TailKeys } : StrLt(L[1], L[2]) }

\* moves within the section or to the unlocated bucket
TailMoveTaskReqs ==
  { Req(Raw("p1"), Raw(t), tg, NullRaw, b, a) :
      t \in ExistingTasks, tg \in BOOLEAN,
      b \in Hints(ExistingTasks), a \in Hints(ExistingTasks) }

StartMoveTaskTail(p) ==
  /\ proc[p].pc = "idle"
  /\ \E r \in TailMoveTaskReqs : MoveTaskBegin(p, r, 1)
  /\ UNCHANGED << db, pure >>

InitTail ==
  /\ \E L \in TailLayouts :
       /\ tasks = MkTasks(L, << "s1", "s1" >>)
       /\ subtasks = MkSubs(L, << "t1", "t1" >>)
  /\ sections = MkSections(<< DefaultSectionRank >>)
  /\ proc = [p \in Procs |-> Idle]
  /\ projects = MkProjects({"p1"})
  /\ argPrev = NullStr /\ argNext = NullStr /\ ret = NullStr

NextTail ==
  \E p \in Procs : \/ StartMoveTaskTail(p)
                   \/ MoveTaskEnsureSection(p)
                   \/ MoveTaskReadBefore(p)
                   \/ MoveTaskReadAfter(p)
                   \/ MoveTaskResolve(p)
                   \/ MoveTaskNoop(p)
                   \/ MoveTaskUpdate(p)
                   \/ StartMoveSubTask(p)
                   \/ MoveSubTaskReadBefore(p)
                   \/ MoveSubTaskReadAfter(p)
                   \/ MoveSubTaskResolve(p)
                   \/ MoveSubTaskNoop(p)
                   \/ MoveSubTaskUpdate(p)

SpecTail == InitTail /\ [][NextTail]_vars

\* ------------------------------------------------------------------------
\* Two workers on the operations that retry a rejected write; every call
\* that is under way is eventually resumed
\* ------------------------------------------------------------------------
\* the keys of the two subtasks of task t1; the one section has the first key
RetryLayouts ==
  { << LowKey(0), LowKey(1) >>, << HighKey(0), HighKey(1) >> }

InitRetry ==
  /\ \E L \in RetryLayouts :
       /\ subtasks = MkSubs(L, << "t1", "t1" >>)
       /\ sections = MkSections(<< L[1] >>)
  /\ tasks = MkTasks(<< DefaultSectionRank >>, << NULL >>)
  /\ proc = [p \in Procs |-> Idle]
  /\ projects = MkProjects({"p1"})
  /\ argPrev = NullStr /\ argNext = NullStr /\ ret = NullStr

\* the steps after the entry of a call: each is the continuation of an await
ContinueRetry(p) ==
  \/ MoveSubTaskReadBefore(p)
  \/ MoveSubTaskReadAfter(p)
  \/ MoveSubTaskResolve(p)
  \/ MoveSubTaskNoop(p)
  \/ MoveSubTaskUpdate(p)
  \/ CreateSectionCreate(p)
  \/ CreateSectionRefetch(p)

NextRetry ==
  \E p \in Procs : \/ StartMoveSubTask(p)
                   \/ StartCreateSection(p)
                   \/ ContinueRetry(p)

SpecRetry ==
  /\ InitRetry /\ [][NextRetry]_vars
  /\ \A p \in Procs : WF_vars(ContinueRetry(p))

\* ------------------------------------------------------------------------
\* updateTask, updateSubTask, updateSection, removeSection
\* ------------------------------------------------------------------------
\* what a request sends for the columns other than the rank: scalar is
\* hasScalarUpdate, assignees is assigneesProvided
NoPatch == [scalar |-> FALSE, assignees |-> FALSE, data |-> 0]
AssigneesOnly == [scalar |-> FALSE, assignees |-> TRUE, data |-> 0]
Patch(v) == [scalar |-> TRUE, assignees |-> FALSE, data |-> v]
PatchWithAssignees(v) == [scalar |-> TRUE, assignees |-> TRUE, data |-> v]

\* a request of these operations
AdminReq(pr, it, inc, patch) ==
  [project |-> pr, item |-> it, hasTarget |-> FALSE, target |-> NullRaw,
   beforeId |-> NullRaw, afterId |-> NullRaw, includeTask |-> inc,
   patch |-> patch]

\* a row that has been deleted
NoTask == [exists |-> FALSE, project |-> NULL, section |-> NULL,
           rank |-> NullStr, data |-> 0, deleted |-> TRUE]
NoSub == [exists |-> FALSE, task |-> NULL, rank |-> NullStr, data |-> 0,
          deleted |-> TRUE]
NoSection == [exists |-> FALSE, project |-> NULL, rank |-> NullStr, data |-> 0,
              deleted |-> TRUE]

\* data: patch, where patch has the keys name, desc, status, dueDate only
PatchedRow(row, patch) ==
  IF patch.scalar THEN [row EXCEPT !.data = patch.data] ELSE row

\* findUnique, then the checks of the fields that were sent
UpdateTaskBegin(p, r) ==
  LET t   == Text(r.item)
      st0 == [Idle EXCEPT !.op = "updateTask", !.round = 1, !.req = r, !.id = t]
  IN  proc' = [proc EXCEPT ![p] =
                 IF ~(t \in TaskIds /\ tasks[t].exists)
                   THEN Finish(st0, "NotFound")
                 ELSE IF ~r.patch.scalar /\ ~r.patch.assignees
                   THEN Finish(st0, "BadRequest")
                 ELSE [st0 EXCEPT !.pc = IF r.patch.scalar THEN "write"
                                         ELSE "assignees"]]

\* if (hasScalarUpdate) tx.dT_TASK.update({ where: { id }, data: patch })
UpdateTaskWrite(p) ==
  /\ proc[p].op = "updateTask" /\ proc[p].pc = "write"
  /\ LET st == proc[p]
         t  == st.id
     IN  IF ~tasks[t].exists
           THEN /\ proc' = [proc EXCEPT ![p] = Finish(st, "P2025")]
                /\ UNCHANGED tasks
           ELSE /\ tasks' = [tasks EXCEPT ![t] = PatchedRow(tasks[t], st.req.patch)]
                /\ proc' = [proc EXCEPT ![p].pc =
                              IF st.req.patch.assignees THEN "assignees"
                              ELSE "reread"]
  /\ UNCHANGED << projects, sections, subtasks, pure >>

\* if (assigneesProvided) tx.dT_ASSIGNEE_TASK.deleteMany; the list sent is
\* empty, so no createMany follows
UpdateTaskAssignees(p) ==
  /\ proc[p].op = "updateTask" /\ proc[p].pc = "assignees"
  /\ proc' = [proc EXCEPT ![p].pc = "reread"]
  /\ UNCHANGED << db, pure >>

\* return tx.dT_TASK.findUnique; the transaction commits, and a task that
\* is gone by then makes the call end with NotFound
UpdateTaskReread(p) ==
  /\ proc[p].op = "updateTask" /\ proc[p].pc = "reread"
  /\ proc' = [proc EXCEPT ![p] =
                Finish(proc[p], IF tasks[proc[p].id].exists THEN "ok"
                                ELSE "NotFound")]
  /\ UNCHANGED << db, pure >>

UpdateSubTaskBegin(p, r) ==
  LET u   == Text(r.item)
      st0 == [Idle EXCEPT !.op = "updateSubTask", !.round = 1, !.req = r,
                          !.id = u]
  IN  proc' = [proc EXCEPT ![p] =
                 IF ~(u \in SubIds /\ subtasks[u].exists)
                   THEN Finish(st0, "NotFound")
                 ELSE [st0 EXCEPT !.pc = "write"]]

\* dT_SUB_TASK.update({ where: { id }, data: { name?, dueDate?, status? } })
UpdateSubTaskWrite(p) ==
  /\ proc[p].op = "updateSubTask" /\ proc[p].pc = "write"
  /\ LET st == proc[p]
         u  == st.id
     IN  IF ~subtasks[u].exists
           THEN /\ proc' = [proc EXCEPT ![p] = Finish(st, "P2025")]
                /\ UNCHANGED subtasks
           ELSE /\ subtasks' = [subtasks EXCEPT ![u] =
                                  PatchedRow(subtasks[u], st.req.patch)]
                /\ proc' = [proc EXCEPT ![p] = Finish(st, "ok")]
  /\ UNCHANGED << projects, sections, tasks, pure >>

\* dT_SECTION.update({ where: { id }, data: { name } }), one storage call
UpdateSection(p, r) ==
  LET x   == Text(r.item)
      st0 == [Idle EXCEPT !.op = "updateSection", !.round = 1, !.req = r,
                          !.id = x]
  IN  IF ~(x \in SectionIds /\ sections[x].exists)
        THEN /\ proc' = [proc EXCEPT ![p] = Finish(st0, "P2025")]
             /\ UNCHANGED sections
        ELSE /\ sections' = [sections EXCEPT ![x] =
                               PatchedRow(sections[x], r.patch)]
             /\ proc' = [proc EXCEPT ![p] = Finish(st0, "ok")]

\* the tasks matched by where: { id_dt_section, id_dt_project }
SectionTasks(pid, sid) ==
  { t \in TaskIds : /\ tasks[t].exists /\ tasks[t].project = pid
                    /\ tasks[t].section = sid }

\* a re-homing that also gives the task a new key
RehomedRowRekeyed(row) == [row EXCEPT !.section = NULL, !.rank = rankFirst]

\* updateMany data: { id_dt_section: null }
RehomedRow(row) == [row EXCEPT !.section = NULL]

\* what the storage does with the rows that refer to a deleted row is fixed
\* by the schema, which the service does not show: they are deleted with it,
\* or the delete is refused, or they stay
ForeignKeyActions == {"cascade", "restrict", "none"}

\* the subtasks that refer to one of the tasks S
SubsOf(S) == { u \in SubIds : subtasks[u].exists /\ subtasks[u].task \in S }

\* the rows before a write of a $transaction, kept until it ends
Saved(tbl, S) == { << x, tbl[x] >> : x \in S }

\* the tables once the tasks S are deleted under the action fk
TasksWithout(S) == [t \in TaskIds |-> IF t \in S THEN NoTask ELSE tasks[t]]
SubsWithout(S, fk) ==
  [u \in SubIds |-> IF u \in S /\ fk = "cascade" THEN NoSub ELSE subtasks[u]]

\* the rollback of a $transaction whose callback has thrown: a row it
\* deleted is there again, a task it re-homed is back in its section
RolledBackTasks(st) ==
  [t \in TaskIds |->
     IF \E e \in st.undoTasks : e[1] = t
       THEN LET old == (CHOOSE e \in st.undoTasks : e[1] = t)[2]
            IN  IF tasks[t].exists
                  THEN [tasks[t] EXCEPT !.section = old.section]
                  ELSE old
       ELSE tasks[t]]

RolledBackSubs(st) ==
  [u \in SubIds |->
     IF \E e \in st.undoSubs : e[1] = u
       THEN LET old == (CHOOSE e \in st.undoSubs : e[1] = u)[2]
            IN  IF subtasks[u].exists THEN subtasks[u] ELSE old
       ELSE subtasks[u]]

\* the callback throws: the call ends with res and its writes are undone
Abort(p, res) ==
  /\ tasks' = RolledBackTasks(proc[p])
  /\ subtasks' = RolledBackSubs(proc[p])
  /\ proc' = [proc EXCEPT ![p] = Finish(proc[p], res)]

\* ------------------------------------------------------------------------
\* removeSection: a $transaction of three storage calls
\* ------------------------------------------------------------------------
\* tx.dT_SECTION.findFirst({ where: { id, id_dt_project } })
RemoveSectionBegin(p, r) ==
  LET pid == Text(r.project)
      sid == Text(r.item)
      st0 == [Idle EXCEPT !.op = "removeSection", !.round = 1, !.req = r,
                          !.id = sid, !.cur = pid]
  IN  proc' = [proc EXCEPT ![p] =
                 IF FindSectionIn(sid, pid).found
                   THEN [st0 EXCEPT !.pc = "tasks"]
                   ELSE Finish(st0, "Error")]

\* includeTask ? tx.dT_TASK.deleteMany : tx.dT_TASK.updateMany
RemoveSectionTasks(p) ==
  /\ proc[p].op = "removeSection" /\ proc[p].pc = "tasks"
  /\ LET st    == proc[p]
         moved == SectionTasks(st.cur, st.id)
         subs  == SubsOf(moved)
         st1   == [st EXCEPT !.pc = "delete",
                             !.undoTasks = Saved(tasks, moved)]
     IN  IF st.req.includeTask
           THEN \E fk \in ForeignKeyActions :
                  IF subs # {} /\ fk = "restrict"
                    THEN /\ proc' = [proc EXCEPT ![p] = Finish(st, "P2003")]
                         /\ UNCHANGED << tasks, subtasks >>
                    ELSE /\ tasks' = TasksWithout(moved)
                         /\ subtasks' = SubsWithout(subs, fk)
                         /\ proc' = [proc EXCEPT ![p] =
                                       [st1 EXCEPT !.undoSubs =
                                          IF fk = "cascade"
                                            THEN Saved(subtasks, subs) ELSE {}]]
         ELSE IF \E t \in moved :
                   TaskUniqueViolation(t, st.cur, NULL, tasks[t].rank)
           THEN /\ proc' = [proc EXCEPT ![p] = Finish(st, "P2002")]
                /\ UNCHANGED << tasks, subtasks >>
         ELSE /\ tasks' = [t \in TaskIds |->
                             IF t \in moved THEN RehomedRow(tasks[t])
                             ELSE tasks[t]]
              /\ UNCHANGED subtasks
              /\ proc' = [proc EXCEPT ![p] = st1]
  /\ UNCHANGED << projects, sections, pure >>

\* tx.dT_SECTION.delete({ where: { id } }), then the commit
RemoveSectionDelete(p) ==
  /\ proc[p].op = "removeSection" /\ proc[p].pc = "delete"
  /\ LET st   == proc[p]
         refs == { t \in TaskIds : tasks[t].exists /\ tasks[t].section = st.id }
     IN  IF ~sections[st.id].exists
           THEN Abort(p, "P2025") /\ UNCHANGED sections
         ELSE \E fk \in ForeignKeyActions :
                IF refs # {} /\ fk = "restrict"
                  THEN Abort(p, "P2003") /\ UNCHANGED sections
                ELSE IF refs # {} /\ fk = "cascade"
                  THEN /\ sections' = [sections EXCEPT ![st.id] = NoSection]
                       /\ tasks' = TasksWithout(refs)
                       /\ subtasks' = SubsWithout(SubsOf(refs), fk)
                       /\ proc' = [proc EXCEPT ![p] = Finish(st, "ok")]
                ELSE /\ sections' = [sections EXCEPT ![st.id] = NoSection]
                     /\ UNCHANGED << tasks, subtasks >>
                     /\ proc' = [proc EXCEPT ![p] = Finish(st, "ok")]
  /\ UNCHANGED << projects, pure >>

\* ------------------------------------------------------------------------
\* deleteSubTask, deleteTaskId
\* ------------------------------------------------------------------------
\* dT_SUB_TASK.findUnique({ where: { id } })
DeleteSubTaskBegin(p, r) ==
  LET u   == Text(r.item)
      st0 == [Idle EXCEPT !.op = "deleteSubTask", !.round = 1, !.req = r,
                          !.id = u]
  IN  proc' = [proc EXCEPT ![p] =
                 IF u \in SubIds /\ subtasks[u].exists
                   THEN [st0 EXCEPT !.pc = "delete"]
                   ELSE Finish(st0, "NotFound")]

\* dT_SUB_TASK.delete({ where: { id } })
DeleteSubTaskDelete(p) ==
  /\ proc[p].op = "deleteSubTask" /\ proc[p].pc = "delete"
  /\ LET st == proc[p]
     IN  IF ~subtasks[st.id].exists
           THEN /\ proc' = [proc EXCEPT ![p] = Finish(st, "P2025")]
                /\ UNCHANGED subtasks
           ELSE /\ subtasks' = [subtasks EXCEPT ![st.id] = NoSub]
                /\ proc' = [proc EXCEPT ![p] = Finish(st, "ok")]
  /\ UNCHANGED << projects, sections, tasks, pure >>

\* dT_TASK_ATTACHMENT.findMany, before the transaction
DeleteTaskIdBegin(p, r) ==
  proc' = [proc EXCEPT ![p] =
             [Idle EXCEPT !.op = "deleteTaskId", !.round = 1, !.req = r,
                          !.id = Text(r.item), !.pc = "assigneeSubtask"]]

\* the deleteMany on dT_ASSIGNEE_SUBTASK, dT_ASSIGNEE_TASK and
\* dT_TASK_ATTACHMENT: one storage call each, on tables that hold no rank
DeleteTaskIdUntracked(p) ==
  /\ proc[p].op = "deleteTaskId"
  /\ proc[p].pc \in {"assigneeSubtask", "assigneeTask", "attachment"}
  /\ proc' = [proc EXCEPT ![p].pc =
                IF proc[p].pc = "assigneeSubtask" THEN "assigneeTask"
                ELSE IF proc[p].pc = "assigneeTask" THEN "attachment"
                ELSE "subtasks"]
  /\ UNCHANGED << db, pure >>

\* tx.dT_SUB_TASK.deleteMany({ where: { task: { id: taskId } } })
DeleteTaskIdSubTasks(p) ==
  /\ proc[p].op = "deleteTaskId" /\ proc[p].pc = "subtasks"
  /\ LET st   == proc[p]
         subs == IF st.id \in TaskIds /\ tasks[st.id].exists
                   THEN SubsOf({st.id}) ELSE {}
     IN  /\ subtasks' = [u \in SubIds |->
                           IF u \in subs THEN NoSub ELSE subtasks[u]]
         /\ proc' = [proc EXCEPT ![p] =
                       [st EXCEPT !.pc = "task",
                                  !.undoSubs = Saved(subtasks, subs)]]
  /\ UNCHANGED << projects, sections, tasks, pure >>

\* tx.dT_TASK.delete({ where: { id: taskId } }); the catch turns P2025 into
\* NotFoundException and every other error into ConflictException
DeleteTaskIdTask(p) ==
  /\ proc[p].op = "deleteTaskId" /\ proc[p].pc = "task"
  /\ LET st   == proc[p]
         subs == SubsOf({st.id})
     IN  IF ~(st.id \in TaskIds /\ tasks[st.id].exists)
           THEN Abort(p, "NotFound")
         ELSE \E fk \in ForeignKeyActions :
                IF subs # {} /\ fk = "restrict"
                  THEN Abort(p, "Conflict")
                  ELSE /\ tasks' = TasksWithout({st.id})
                       /\ subtasks' = SubsWithout(subs, fk)
                       /\ proc' = [proc EXCEPT ![p] = Finish(st, "ok")]
  /\ UNCHANGED << projects, sections, pure >>

\* ------------------------------------------------------------------------
\* create, deleteProjectById
\* ------------------------------------------------------------------------
NoProject == [exists |-> FALSE, deleted |-> TRUE]

\* tx.dT_PROJECT.create
CreateProject(p, r) ==
  /\ Cardinality(FreeProjects) > 0
  /\ LET x == FreshId(ProjectOrder, FreeProjects)
     IN  /\ projects' = [projects EXCEPT ![x] =
                           [exists |-> TRUE, deleted |-> FALSE]]
         /\ proc' = [proc EXCEPT ![p] =
                       [Idle EXCEPT !.op = "create", !.round = 1, !.req = r,
                                    !.id = x, !.pc = "member"]]

\* tx.dT_MEMBER_PROJECT.create for the owner, then the commit; a request
\* without further members ends here
CreateProjectMember(p) ==
  /\ proc[p].op = "create" /\ proc[p].pc = "member"
  /\ proc' = [proc EXCEPT ![p] = Finish(proc[p], "ok")]
  /\ UNCHANGED << db, pure >>

\* tx.dT_ASSIGNEE_SUBTASK.deleteMany, the first call of the transaction
DeleteProjectByIdBegin(p, r) ==
  proc' = [proc EXCEPT ![p] =
             [Idle EXCEPT !.op = "deleteProjectById", !.round = 1, !.req = r,
                          !.id = Text(r.project), !.pc = "assigneeTask"]]

\* the deleteMany on dT_ASSIGNEE_TASK and on dT_MEMBER_PROJECT
DeleteProjectByIdUntracked(p) ==
  /\ proc[p].op = "deleteProjectById"
  /\ proc[p].pc \in {"assigneeTask", "members"}
  /\ proc' = [proc EXCEPT ![p].pc =
                IF proc[p].pc = "assigneeTask" THEN "subtasks" ELSE "project"]
  /\ UNCHANGED << db, pure >>

ProjectTasks(pid) ==
  { t \in TaskIds : tasks[t].exists /\ tasks[t].project = pid }

ProjectSections(pid) ==
  { x \in SectionIds : sections[x].exists /\ sections[x].project = pid }

\* tx.dT_SUB_TASK.deleteMany({ where: { task: { id_dt_project: id } } })
DeleteProjectByIdSubTasks(p) ==
  /\ proc[p].op = "deleteProjectById" /\ proc[p].pc = "subtasks"
  /\ LET st   == proc[p]
         subs == SubsOf(ProjectTasks(st.id))
     IN  /\ subtasks' = [u \in SubIds |->
                           IF u \in subs THEN NoSub ELSE subtasks[u]]
         /\ proc' = [proc EXCEPT ![p] =
                       [st EXCEPT !.pc = "tasks",
                                  !.undoSubs = Saved(subtasks, subs)]]
  /\ UNCHANGED << projects, sections, tasks, pure >>

\* tx.dT_TASK.deleteMany({ where: { id_dt_project: id } })
DeleteProjectByIdTasks(p) ==
  /\ proc[p].op = "deleteProjectById" /\ proc[p].pc = "tasks"
  /\ LET st   == proc[p]
         gone == ProjectTasks(st.id)
         subs == SubsOf(gone)
     IN  \E fk \in ForeignKeyActions :
           IF subs # {} /\ fk = "restrict"
             THEN Abort(p, "Conflict")
             ELSE /\ tasks' = TasksWithout(gone)
                  /\ subtasks' = SubsWithout(subs, fk)
                  /\ proc' = [proc EXCEPT ![p] =
                                [st EXCEPT !.pc = "members",
                                           !.undoTasks = Saved(tasks, gone),
                                           !.undoSubs = st.undoSubs \cup
                                             (IF fk = "cascade"
                                                THEN Saved(subtasks, subs)
                                                ELSE {})]]
  /\ UNCHANGED << projects, sections, pure >>

\* tx.dT_PROJECT.delete({ where: { id } }), then the commit; the sections of
\* the project, and the tasks created in it since, still refer to it
DeleteProjectByIdProject(p) ==
  /\ proc[p].op = "deleteProjectById" /\ proc[p].pc = "project"
  /\ LET st   == proc[p]
         secs == ProjectSections(st.id)
         left == ProjectTasks(st.id)
     IN  IF ~FindProject(st.id)
           THEN Abort(p, "NotFound") /\ UNCHANGED << projects, sections >>
         ELSE \E fk \in ForeignKeyActions :
                IF (secs # {} \/ left # {}) /\ fk = "restrict"
                  THEN Abort(p, "Conflict") /\ UNCHANGED << projects, sections >>
                ELSE IF fk = "cascade"
                  THEN /\ projects' = [projects EXCEPT ![st.id] = NoProject]
                       /\ sections' = [x \in SectionIds |->
                                         IF x \in secs THEN NoSection
                                         ELSE sections[x]]
                       /\ tasks' = TasksWithout(left)
                       /\ subtasks' = SubsWithout(SubsOf(left), fk)
                       /\ proc' = [proc EXCEPT ![p] = Finish(st, "ok")]
                ELSE /\ projects' = [projects EXCEPT ![st.id] = NoProject]
                     /\ UNCHANGED << sections, tasks, subtasks >>
                     /\ proc' = [proc EXCEPT ![p] = Finish(st, "ok")]
  /\ UNCHANGED pure

\* ------------------------------------------------------------------------
\* Requests of these operations and their specification
\* ------------------------------------------------------------------------
UpdateTaskReqs ==
  { AdminReq(NullRaw, Raw(t), FALSE, v) :
      t \in {"t1", "t5"},
      v \in {NoPatch, AssigneesOnly, Patch(1), PatchWithAssignees(1)} }

UpdateSubTaskReqs ==
  { AdminReq(NullRaw, Raw(u), FALSE, v) : u \in {"u1", "u5"},
                                         v \in {NoPatch, Patch(1)} }

UpdateSectionReqs ==
  { AdminReq(NullRaw, Raw(x), FALSE, Patch(1)) : x \in {"s1", "s4"} }

RemoveSectionReqs ==
  { AdminReq(Raw("p1"), Raw(x), inc, NoPatch) :
      x \in {"s1", "s4"}, inc \in BOOLEAN }

DeleteSubTaskReqs ==
  { AdminReq(NullRaw, Raw(u), FALSE, NoPatch) : u \in {"u1", "u5"} }

DeleteTaskIdReqs ==
  { AdminReq(NullRaw, Raw(t), FALSE, NoPatch) : t \in {"t1", "t5"} }

DeleteProjectByIdReqs ==
  { AdminReq(Raw(x), NullRaw, FALSE, NoPatch) : x \in {"p1", "p3"} }

CreateProjectReqs == { AdminReq(NullRaw, NullRaw, FALSE, NoPatch) }

\* createTask into section s1 or into the unlocated bucket of a project
AdminCreateTaskReqs ==
  { Req(Raw("p1"), NullRaw, TRUE, x, NullRaw, NullRaw) :
      x \in { NullRaw, Raw("s1") } }

StartUpdateTask(p) ==
  /\ proc[p].pc = "idle"
  /\ \E r \in UpdateTaskReqs : UpdateTaskBegin(p, r)
  /\ UNCHANGED << db, pure >>

StartUpdateSubTask(p) ==
  /\ proc[p].pc = "idle"
  /\ \E r \in UpdateSubTaskReqs : UpdateSubTaskBegin(p, r)
  /\ UNCHANGED << db, pure >>

CallUpdateSection(p) ==
  /\ proc[p].pc = "idle"
  /\ \E r \in UpdateSectionReqs : UpdateSection(p, r)
  /\ UNCHANGED << projects, tasks, subtasks, pure >>

StartRemoveSection(p) ==
  /\ proc[p].pc = "idle"
  /\ \E r \in RemoveSectionReqs : RemoveSectionBegin(p, r)
  /\ UNCHANGED << db, pure >>

StartDeleteSubTask(p) ==
  /\ proc[p].pc = "idle"
  /\ \E r \in DeleteSubTaskReqs : DeleteSubTaskBegin(p, r)
  /\ UNCHANGED << db, pure >>

StartDeleteTaskId(p) ==
  /\ proc[p].pc = "idle"
  /\ \E r \in DeleteTaskIdReqs : DeleteTaskIdBegin(p, r)
  /\ UNCHANGED << db, pure >>

StartDeleteProjectById(p) ==
  /\ proc[p].pc = "idle"
  /\ \E r \in DeleteProjectByIdReqs : DeleteProjectByIdBegin(p, r)
  /\ UNCHANGED << db, pure >>

StartCreateProject(p) ==
  /\ proc[p].pc = "idle"
  /\ \E r \in CreateProjectReqs : CreateProject(p, r)
  /\ UNCHANGED << sections, tasks, subtasks, pure >>

StartCreateTaskAdmin(p) ==
  /\ proc[p].pc = "idle"
  /\ \E r \in AdminCreateTaskReqs : CreateTaskBegin(p, r)
  /\ UNCHANGED << db, pure >>

\* the storage contents: section s1 holds tasks t1 and t2, task t3 is
\* unlocated, task t1 has subtasks u1 and u2
AdminKeys == { LowKey(n) : n \in 0..LayoutSpan }

AdminLayouts ==
  { T \in AdminKeys \X AdminKeys \X (AdminKeys \cup { DefaultSectionRank }) :
      StrLt(T[1], T[2]) }

\* two workers, one call each
InitAdmin ==
  /\ \E T \in AdminLayouts :
       /\ sections = MkSections(<< T[1], T[2] >>)
       /\ tasks = MkTasks(T, << "s1", "s1", NULL >>)
       /\ subtasks = MkSubs(<< T[1], T[2] >>, << "t1", "t1" >>)
  /\ proc = [p \in Procs |-> Idle]
  /\ projects = MkProjects({"p1"})
  /\ argPrev = NullStr /\ argNext = NullStr /\ ret = NullStr

NextAdmin ==
  \E p \in Procs : \/ StartUpdateTask(p)
                   \/ UpdateTaskWrite(p)
                   \/ UpdateTaskAssignees(p)
                   \/ UpdateTaskReread(p)
                   \/ StartUpdateSubTask(p)
                   \/ UpdateSubTaskWrite(p)
                   \/ CallUpdateSection(p)
                   \/ StartRemoveSection(p)
                   \/ RemoveSectionTasks(p)
                   \/ RemoveSectionDelete(p)
                   \/ StartDeleteSubTask(p)
                   \/ DeleteSubTaskDelete(p)
                   \/ StartDeleteTaskId(p)
                   \/ DeleteTaskIdUntracked(p)
                   \/ DeleteTaskIdSubTasks(p)
                   \/ DeleteTaskIdTask(p)
                   \/ StartCreateProject(p)
                   \/ CreateProjectMember(p)
                   \/ StartDeleteProjectById(p)
                   \/ DeleteProjectByIdUntracked(p)
                   \/ DeleteProjectByIdSubTasks(p)
                   \/ DeleteProjectByIdTasks(p)
                   \/ DeleteProjectByIdProject(p)
                   \/ StartCreateTaskAdmin(p)
                   \/ CreateTaskReadLast(p)
                   \/ CreateTaskCreate(p)

SpecAdmin == InitAdmin /\ [][NextAdmin]_vars

\* ------------------------------------------------------------------------
\* Appends to one container, one after the other: argPrev is the greatest key
\* of the container, ret the key the next createTask / createSection /
\* addSubTask computes from it
\* ------------------------------------------------------------------------
\* the key of the first item of a container: rankFirst for createTask, the
\* default of rankBetween for createSection and addSubTask
FirstKeys == { rankFirst, DefaultSectionRank }

\* the insert commits because the key is above every key of the container,
\* and the next call reads the new row as the last one
AppendAgain ==
  /\ ret # NullStr /\ argPrev # NullStr /\ argNext = NullStr
  /\ BigLt(toBig(argPrev), toBig(ret))
  /\ argPrev' = ret
  /\ ret' = NullStr
  /\ UNCHANGED << db, proc, argNext >>

InitAppend ==
  /\ projects = MkProjects({"p1"})
  /\ sections = MkSections(<< >>)
  /\ tasks = MkTasks(<< >>, << >>)
  /\ subtasks = MkSubs(<< >>, << >>)
  /\ proc = [p \in Procs |-> Off]
  /\ argPrev \in FirstKeys /\ argNext = NullStr
  /\ ret = NullStr

NextAppend == CallRankBetween \/ AppendAgain

SpecAppend == InitAppend /\ [][NextAppend]_vars

\* ------------------------------------------------------------------------
\* Properties
\* ------------------------------------------------------------------------
MoveOps == {"moveTask", "moveSubTask"}

Two == << 2 >>

\* numeric order of two keys, and value(b) - value(a) >= 2
NumLt(a, b) == BigLt(toBig(a), toBig(b))
GapAtLeast2(a, b) == BigGe(toBig(b), BigAdd(toBig(a), Two))

\* the ranks stored in the destination container of a move
ContainerRanks(st) ==
  IF st.op = "moveTask" THEN TaskRanks(Pid(st), st.dest)
  ELSE IF st.op = "moveSubTask" THEN SubRanks(st.dest)
  ELSE SectionRanks(st.dest)

\* the ranks of the items of the destination container that are neither the
\* moved item nor named by beforeId / afterId
ThirdItemRanks(st) ==
  LET named == {st.id, st.beforeId, st.afterId}
  IN  IF st.op = "moveTask"
        THEN { tasks[t].rank : t \in { x \in TaskIds \ named :
                 /\ tasks[x].exists /\ tasks[x].project = Pid(st)
                 /\ tasks[x].section = st.dest } }
      ELSE IF st.op = "moveSubTask"
        THEN { subtasks[u].rank : u \in { x \in SubIds \ named :
                 subtasks[x].exists /\ subtasks[x].task = st.dest } }
      ELSE { sections[x].rank : x \in { y \in SectionIds \ named :
                 sections[y].exists /\ sections[y].project = st.dest } }

BothResolved(st) == st.after.found /\ st.before.found

\* C1: in every reachable state no two sections of one project, no two tasks
\* of one section or unlocated bucket of one project, and no two subtasks of
\* one task have the same rank.  In this model the property is carried by
\* the uniqueness constraints of the storage (TaskUniqueViolation,
\* SubUniqueViolation, SectionUniqueViolation), which are taken from the
\* specification: the schema is not part of the sources, and the steps of
\* the service do not establish the property by themselves (with
\* TaskNoConstraint two createTask calls on an empty container both store
\* rankFirst).
C1_NoDuplicateRank ==
  /\ \A x, y \in SectionIds :
       (x # y /\ sections[x].exists /\ sections[y].exists
          /\ sections[x].project = sections[y].project)
         => sections[x].rank # sections[y].rank
  /\ \A x, y \in TaskIds :
       (x # y /\ tasks[x].exists /\ tasks[y].exists
          /\ tasks[x].project = tasks[y].project
          /\ tasks[x].section = tasks[y].section)
         => tasks[x].rank # tasks[y].rank
  /\ \A x, y \in SubIds :
       (x # y /\ subtasks[x].exists /\ subtasks[y].exists
          /\ subtasks[x].task = subtasks[y].task)
         => subtasks[x].rank # subtasks[y].rank

\* two concurrent calls aimed at the same key of the same container: one has
\* committed, the write of the other was rejected
C1_Witness ==
  \E p, q \in Procs :
    /\ p # q
    /\ proc[p].op = "moveTask" /\ proc[q].op = "moveTask"
    /\ proc[p].result = "ok" /\ proc[q].result = "P2002"
    /\ proc[p].dest = proc[q].dest /\ proc[p].newRank = proc[q].newRank

\* C2 as stated: a committed moveTask / moveSubTask whose two hints resolved
\* with key(afterId) < key(beforeId) has a new key strictly between them.
C2_Original ==
  \A p \in Procs :
    LET st == proc[p]
    IN  (st.op \in MoveOps /\ st.result = "ok" /\ BothResolved(st)
           /\ NumLt(st.after.rank, st.before.rank))
          => /\ NumLt(st.after.rank, st.newRank)
             /\ NumLt(st.newRank, st.before.rank)

\* C2 amended: a committed moveTask / moveSubTask whose two hints resolved
\* with key(beforeId) - key(afterId) >= 2 has a new key strictly between the
\* two keys it read.
C2_Betweenness ==
  \A p \in Procs :
    LET st == proc[p]
    IN  (st.op \in MoveOps /\ st.result = "ok" /\ BothResolved(st)
           /\ GapAtLeast2(st.after.rank, st.before.rank))
          => /\ NumLt(st.after.rank, st.newRank)
             /\ NumLt(st.newRank, st.before.rank)

C2_Witness ==
  \E p \in Procs :
    /\ proc[p].op \in MoveOps /\ proc[p].result = "ok"
    /\ BothResolved(proc[p])
    /\ GapAtLeast2(proc[p].after.rank, proc[p].before.rank)

\* C3: the key a move computes from two resolving hints, which name items
\* other than the moved one with key(afterId) < key(beforeId), is never the
\* key of a third item of the destination container (an item that is
\* neither the moved item nor named by a hint).
C3_NoThirdItemCollision ==
  \A p \in Procs :
    LET st == proc[p]
    IN  (st.op \in MoveOps \cup {"moveSection"} /\ st.pc = "write"
           /\ BothResolved(st)
           /\ st.beforeId # st.id /\ st.afterId # st.id
           /\ NumLt(st.after.rank, st.before.rank))
          => st.newRank \notin ThirdItemRanks(st)

\* C4: for boundary keys L, U with U - L >= 2, rankBetween(L, U) is a key K
\* with L < K < U.
C4_Between ==
  (ret # NullStr /\ argPrev # NullStr /\ argNext # NullStr
     /\ GapAtLeast2(argPrev, argNext))
    => NumLt(argPrev, ret) /\ NumLt(ret, argNext)

C4_Witness ==
  /\ ret # NullStr /\ argPrev # NullStr /\ argNext # NullStr
  /\ toBig(argNext) = BigAdd(toBig(argPrev), Two)

\* C5 as stated: rankBetween(L, null) > L for every key L, and
\* rankBetween(null, U) < U for every key U.
C5_Original ==
  ret # NullStr
    => /\ (argPrev # NullStr /\ argNext = NullStr) => NumLt(argPrev, ret)
       /\ (argPrev = NullStr /\ argNext # NullStr) => NumLt(ret, argNext)

\* C5 amended: rankBetween(L, null) > L for every key L <= MAX - 2, and
\* rankBetween(null, U) < U for every key U >= 1.
C5_Endpoint ==
  ret # NullStr
    => /\ (argPrev # NullStr /\ argNext = NullStr /\ GapAtLeast2(argPrev, MAX))
            => NumLt(argPrev, ret)
       /\ (argPrev = NullStr /\ argNext # NullStr /\ toBig(argNext) # << 0 >>)
            => NumLt(ret, argNext)

C5_Witness ==
  /\ ret # NullStr
  /\ \/ argPrev = HighKey(2) /\ argNext = NullStr
     \/ argPrev = NullStr /\ argNext = LowKey(1)

\* C6 as stated: rankBetween(null, null) is encode(MAX / 2).
C6_Original ==
  (ret # NullStr /\ argPrev = NullStr /\ argNext = NullStr)
    => ret = pad(BigDiv2(MAX))

\* C6 amended: rankBetween(null, null) is always the same constant, the
\* digit 8 repeated WIDTH times ("8888888888888888").
C6_Default ==
  (ret # NullStr /\ argPrev = NullStr /\ argNext = NullStr)
    => ret = DefaultSectionRank

C6_Witness == ret # NullStr /\ argPrev = NullStr /\ argNext = NullStr

\* C7: when a moveTask / moveSubTask request is sent a second time right
\* after the first call returned, the second call commits no write.
C7_Idempotent ==
  \A p \in Procs :
    (proc[p].op \in MoveOps /\ proc[p].round = 2 /\ proc[p].pc = "done")
      => proc[p].result # "ok"

\* C8: a moveTask / moveSubTask that commits with only afterId resolved (to
\* A), where B is the least key above key(A) in the destination container
\* and key(B) - key(A) >= 2, writes a key K with key(A) < K < key(B); and
\* symmetrically with only beforeId resolved (to B) and A the greatest key
\* below key(B).  Calls run one after the other, so the container at the
\* write is the container the call read.
C8_Commit(p) ==
  LET st == proc[p]
      K  == st.newRank
      R  == ContainerRanks(st)
  IN  (st.op \in MoveOps /\ st.pc = "write" /\ proc'[p].result = "ok")
        => /\ (st.after.found /\ ~st.before.found)
                => \A b \in R :
                     (/\ NumLt(st.after.rank, b)
                      /\ \A q \in R : NumLt(st.after.rank, q) => ~NumLt(q, b)
                      /\ GapAtLeast2(st.after.rank, b))
                       => NumLt(st.after.rank, K) /\ NumLt(K, b)
           /\ (~st.after.found /\ st.before.found)
                => \A a \in R :
                     (/\ NumLt(a, st.before.rank)
                      /\ \A q \in R : NumLt(q, st.before.rank) => ~NumLt(a, q)
                      /\ GapAtLeast2(a, st.before.rank))
                       => NumLt(a, K) /\ NumLt(K, st.before.rank)

C8_StaleNeighbourSafety == [][\A p \in Procs : C8_Commit(p)]_vars

\* a committed single-hint move that landed below A and above a further item
C8_Witness ==
  \E p \in Procs :
    /\ proc[p].op \in MoveOps /\ proc[p].result = "ok" /\ proc[p].round = 1
    /\ proc[p].after.found /\ ~proc[p].before.found
    /\ NumLt(proc[p].after.rank, proc[p].newRank)
    /\ \E b \in ContainerRanks(proc[p]) : NumLt(proc[p].newRank, b)

\* C9: two moveTask calls for different tasks that computed the same key for
\* the same destination both commit, and the two tasks end with distinct
\* keys.  The case checked is the tail append
\* (no hint resolved, key below MAX - 1): a call that computed after the
\* other's commit would have read that key as the maximum and computed a
\* greater one, so equal keys mean that both computed before either wrote.
C9_CollisionRetry ==
  \A p, q \in Procs :
    (/\ p # q
     /\ proc[p].op = "moveTask" /\ proc[q].op = "moveTask"
     /\ proc[p].pc = "done" /\ proc[q].pc = "done"
     /\ proc[p].id # proc[q].id
     /\ proc[p].dest = proc[q].dest
     /\ proc[p].newRank # NullStr /\ proc[p].newRank = proc[q].newRank
     /\ ~proc[p].after.found /\ ~proc[p].before.found
     /\ ~proc[q].after.found /\ ~proc[q].before.found
     /\ GapAtLeast2(proc[p].newRank, MAX))
      => /\ proc[p].result = "ok" /\ proc[q].result = "ok"
         /\ tasks[proc[p].id].rank # tasks[proc[q].id].rank

\* C10: with calls run one after the other, no step of a moveTask call whose
\* request has no targetSectionId field changes the section of the task, and
\* a moveTask call whose targetSectionId is null returns with the task in
\* the unlocated bucket.
C10_Step(p) ==
  LET st == proc'[p]
  IN  (st.op = "moveTask" /\ st.id \in TaskIds)
        => /\ ~st.req.hasTarget
                => tasks'[st.id].section = tasks[st.id].section
           /\ (st.req.hasTarget /\ st.req.target = NullRaw
                 /\ st.pc = "done" /\ st.result \in {"ok", "noop"})
                => tasks'[st.id].section = NULL

C10_Sentinel == [][\A p \in Procs : C10_Step(p)]_vars

\* a task of a section moved by a request with targetSectionId: null
C10_Witness ==
  \E p \in Procs :
    /\ proc[p].op = "moveTask" /\ proc[p].result = "ok"
    /\ proc[p].req.hasTarget /\ proc[p].req.target = NullRaw
    /\ proc[p].cur # NULL
    /\ tasks[proc[p].id].section = NULL

\* ------------------------------------------------------------------------
\* Properties of calls: scenario, hints, errors
\* ------------------------------------------------------------------------
AllMoveOps == MoveOps \cup {"moveSection"}

\* the tasks of one container
TasksIn(pid, sec) ==
  { x \in TaskIds : /\ tasks[x].exists
                    /\ tasks[x].project = pid
                    /\ tasks[x].section = sec }

\* C11: end-to-end scenario on an empty section, calls one after the other:
\* the first task created there has key "8888888888888888"; a second task
\* appended there has a key greater than "8888888888888888"; a third task
\* moved there with afterId = the first and beforeId = the second gets a key
\* strictly between their keys.  Fresh rows get the ids t4 and t5 in that
\* order, so in a container that holds them t4 is the first and t5 the second.
C11_Scenario ==
  \A p \in Procs :
    LET st == proc[p]
    IN  /\ (st.op = "createTask" /\ st.result = "ok"
              /\ TasksIn(st.cur, st.dest) = {st.id})
             => tasks[st.id].rank = DefaultSectionRank
        /\ (st.op = "createTask" /\ st.result = "ok"
              /\ Cardinality(TasksIn(st.cur, st.dest)) = 2)
             => StrLt(DefaultSectionRank, tasks[st.id].rank)
        /\ (st.op = "moveTask" /\ st.result = "ok"
              /\ st.afterId = "t4" /\ st.beforeId = "t5"
              /\ TasksIn(Pid(st), st.dest) = {"t4", "t5", st.id})
             => /\ NumLt(tasks["t4"].rank, tasks[st.id].rank)
                /\ NumLt(tasks[st.id].rank, tasks["t5"].rank)

\* the row a hint resolves to in the destination of the call st
Neighbor(st, nid) ==
  IF nid = NULL THEN NoRow
  ELSE IF st.op = "moveTask" THEN FindTaskIn(nid, Pid(st), st.dest)
  ELSE IF st.op = "moveSubTask" THEN FetchNeighbor(nid, st.dest)
  ELSE FindSectionIn(nid, st.dest)

\* the key the call st computes from the present storage content when its
\* hints, after normalisation, are b and a
KeyWithHints(st, b, a) ==
  LET s2 == [st EXCEPT !.before = Neighbor(st, b), !.after = Neighbor(st, a)]
  IN  IF st.op = "moveSection" \/ BothResolved(s2)
        THEN rankBetween(s2.after.rank, s2.before.rank)
      ELSE IF st.op = "moveTask" THEN MoveTaskComputeRank(s2)
      ELSE MoveSubTaskComputeRank(s2)

\* the hints of the request as normalizeGuid returns them
HintB(st) == normalizeGuid(st.req.beforeId)
HintA(st) == normalizeGuid(st.req.afterId)

DropSelf(st, h) == IF h = st.id THEN NULL ELSE h

\* C12: a move (moveTask, moveSubTask, moveSection) whose beforeId or afterId
\* is the id of the moved item computes the key that the same request
\* computes with that hint absent.
C12_SelfReferenceGuard ==
  \A p \in Procs :
    LET st == proc[p]
    IN  (st.op \in AllMoveOps /\ st.pc = "write" /\ st.attempt <= 1
           /\ (HintB(st) = st.id \/ HintA(st) = st.id))
          => st.newRank = KeyWithHints(st, DropSelf(st, HintB(st)),
                                           DropSelf(st, HintA(st)))

\* the write the call st is about to issue is its last permitted attempt and
\* the uniqueness constraint rejects it
FinalConflict(st) ==
  \/ /\ st.op = "moveTask" /\ st.pc = "write" /\ ~MoveTaskIsNoop(st)
     /\ tasks[st.id].exists
     /\ TaskUniqueViolation(st.id, tasks[st.id].project, st.dest, st.newRank)
  \/ /\ st.op = "moveSubTask" /\ st.pc = "write" /\ ~MoveSubTaskIsNoop(st)
     /\ subtasks[st.id].exists
     /\ SubUniqueViolation(st.id, subtasks[st.id].task, st.newRank)
     /\ st.attempt = MAX_RETRY
  \/ /\ st.op = "createSection" /\ st.pc = "create"
     /\ SectionUniqueViolation(NULL, st.dest, st.newRank)
     /\ st.attempt = 2

C13_Step(p) ==
  (FinalConflict(proc[p]) /\ proc'[p] # proc[p])
    => proc'[p].result = "Conflict" /\ db' = db

\* C13: when the last permitted attempt of moveTask, moveSubTask or
\* createSection is rejected by the uniqueness constraint, the call ends
\* with an error of kind Conflict and has written nothing.
C13_ConflictKind == [][\A p \in Procs : C13_Step(p)]_vars

\* an id that is present and does not normalise
IsMalformed(id) == id # NullRaw /\ normalizeGuid(id) = NULL

C14_Step(p) ==
  LET st == proc'[p]
      r  == st.req
  IN  (st.op \in AllMoveOps
         /\ \/ IsMalformed(r.beforeId)
            \/ IsMalformed(r.afterId)
            \/ r.hasTarget /\ IsMalformed(r.target))
        => /\ db' = db
           /\ st.pc = "done" => st.result = "BadRequest"

\* C14: a move whose beforeId, afterId or targetSectionId is present and
\* malformed writes nothing and ends with the invalid-identifier error
\* (BadRequest); in particular the task's section does not change.
C14_InvalidIdentifier == [][\A p \in Procs : C14_Step(p)]_vars

\* the task named by the request is not a task of the named project
NoSuchTask(r) ==
  LET pid == normalizeGuid(r.project)
      tid == normalizeGuid(r.item)
  IN  ~(tid \in TaskIds /\ tasks[tid].exists /\ tasks[tid].project = pid)

\* targetSectionId is a well-formed id that names no section of the project
NoSuchTarget(r) ==
  LET pid == normalizeGuid(r.project)
      sec == normalizeGuid(r.target)
  IN  /\ r.hasTarget /\ sec # NULL
      /\ ~(sec \in SectionIds /\ sections[sec].exists
             /\ sections[sec].project = pid)

C15_Step(p) ==
  LET st == proc'[p]
      r  == st.req
  IN  (st.op = "moveTask"
         /\ normalizeGuid(r.project) # NULL /\ normalizeGuid(r.item) # NULL
         /\ (NoSuchTask(r) \/ NoSuchTarget(r)))
        => /\ db' = db
           /\ st.pc = "done" => st.result = "NotFound"

\* C15: a moveTask call with well-formed project and task ids writes nothing
\* and ends with NotFound when the task is not a task of the project, or
\* when targetSectionId is a well-formed id that names no section of the
\* project.
C15_NotFound == [][\A p \in Procs : C15_Step(p)]_vars

\* a call for an existing task whose target is a section of another project
C15_Witness ==
  \E p \in Procs :
    /\ proc[p].op = "moveTask" /\ proc[p].result = "NotFound"
    /\ ~NoSuchTask(proc[p].req)
    /\ NoSuchTarget(proc[p].req)
    /\ normalizeGuid(proc[p].req.target) \in SectionIds
    /\ sections[normalizeGuid(proc[p].req.target)].exists

C16_Step(p) ==
  LET st == proc'[p]
  IN  (proc'[p] # proc[p] /\ st.op \in AllMoveOps)
        => \/ db' = db
           \/ /\ st.pc = "done" /\ st.result = "ok"
              /\ st.op = "moveTask" =>
                   /\ tasks' = [tasks EXCEPT ![st.id].section = st.dest,
                                             ![st.id].rank = st.newRank]
                   /\ sections' = sections /\ subtasks' = subtasks
              /\ st.op = "moveSubTask" =>
                   /\ subtasks' = [subtasks EXCEPT ![st.id].rank = st.newRank]
                   /\ sections' = sections /\ tasks' = tasks
              /\ st.op = "moveSection" =>
                   /\ sections' = [sections EXCEPT ![st.id].rank = st.newRank]
                   /\ tasks' = tasks /\ subtasks' = subtasks

\* C16: every step of a move either leaves the storage unchanged or is the
\* one committing step of the call, which sets the container and the rank of
\* the moved item together and changes no other row; a move that ends in an
\* error has changed nothing.
C16_AtomicMove == [][\A p \in Procs : C16_Step(p)]_vars

\* a committed moveTask that changed both the section and the rank
C16_Witness ==
  \E p \in Procs :
    /\ proc[p].op = "moveTask" /\ proc[p].result = "ok"
    /\ proc[p].cur # proc[p].dest /\ proc[p].curRank # proc[p].newRank
    /\ tasks[proc[p].id].section = proc[p].dest
    /\ tasks[proc[p].id].rank = proc[p].newRank

C17_Step(p) ==
  (proc[p].op = "createSection" /\ proc[p].pc = "create"
     /\ proc'[p].result = "ok")
    => \A x \in SectionIds :
         (sections'[x].exists /\ sections'[x].project = proc'[p].dest)
           => ~StrLt(sections'[proc'[p].id].rank, sections'[x].rank)

\* C17: at the step at which createSection commits, the new section has the
\* greatest rank among the sections of its project, whatever createSection
\* and moveSection calls run at the same time.
C17_TailAppend == [][\A p \in Procs : C17_Step(p)]_vars

Three == << 3 >>

\* the ranks of the sections the project had before the calls p and q
OtherSectionRanks(p, q) ==
  { sections[x].rank : x \in { y \in SectionIds \ {proc[p].id, proc[q].id} :
      sections[y].exists /\ sections[y].project = proc[p].dest } }

\* C18: when the only two calls are createSection calls on one project whose
\* greatest section key is at most MAX - 3, both commit and the two new
\* sections have distinct keys; a call that lost the race for a key has
\* inserted at rankAfter of the key the other call committed.
C18_ConcurrentCreate ==
  \A p, q \in Procs :
    (/\ p # q
     /\ proc[p].op = "createSection" /\ proc[q].op = "createSection"
     /\ proc[p].pc = "done" /\ proc[q].pc = "done"
     /\ \A r \in OtherSectionRanks(p, q) :
          BigGe(MAX, BigAdd(toBig(r), Three)))
      => /\ proc[p].result = "ok" /\ proc[q].result = "ok"
         /\ sections[proc[p].id].rank # sections[proc[q].id].rank
         /\ proc[q].attempt >= 1
              => sections[proc[q].id].rank = rankAfter(sections[proc[p].id].rank)

\* both calls computed the same key above a greatest key of MAX - 3, and the
\* loser retried
C18_Witness ==
  \E p, q \in Procs :
    /\ p # q
    /\ proc[p].op = "createSection" /\ proc[q].op = "createSection"
    /\ proc[p].result = "ok" /\ proc[q].result = "ok"
    /\ proc[q].attempt >= 1
    /\ HighKey(3) \in OtherSectionRanks(p, q)
    /\ \A r \in OtherSectionRanks(p, q) : ~StrLt(HighKey(3), r)

C19_Step(p) ==
  LET st == proc[p]
      nx == proc'[p]
  IN  /\ (st.op = "moveSubTask" /\ st.attempt >= 1
            /\ nx.attempt = st.attempt + 1)
           => /\ nx.before = FetchNeighbor(nx.beforeId, nx.dest)
              /\ nx.after = FetchNeighbor(nx.afterId, nx.dest)
              /\ nx.pc = "write" => nx.newRank # st.newRank
      /\ (st.op = "moveSubTask" /\ st.attempt >= 2
            /\ st.pc = "resolve" /\ nx.pc = "write")
           => nx.newRank # st.newRank

\* C19: when moveSubTask retries after a uniqueness conflict, the rows of
\* the neighbours it works with are the rows as they are in storage at the
\* retry, and the key it computes is not the key that just conflicted.
C19_FreshRetry == [][\A p \in Procs : C19_Step(p)]_vars

\* the row nid is a row of the destination container of the call st
InDest(st, nid) ==
  IF st.op = "moveTask"
    THEN /\ nid \in TaskIds /\ tasks[nid].exists
         /\ tasks[nid].project = Pid(st) /\ tasks[nid].section = st.dest
    ELSE /\ nid \in SubIds /\ subtasks[nid].exists
         /\ subtasks[nid].task = st.dest

Dangling(st, h) == h # NULL /\ h # st.id /\ ~InDest(st, h)

DropDangling(st, h) == IF h = st.id \/ ~InDest(st, h) THEN NULL ELSE h

\* the section the task of the request is to be placed in is a non-empty
\* string that does not normalise to an id
InvalidDest(r) ==
  LET tid  == normalizeGuid(r.item)
      dest == DestSection(r, tasks[tid].section)
  IN  Truthy(dest) /\ EnsureSectionId(dest) = NULL

\* the section the task of the request is to be placed in normalises to an
\* id that names no section of the project
NoSuchDest(r) ==
  LET pid  == normalizeGuid(r.project)
      tid  == normalizeGuid(r.item)
      dest == DestSection(r, tasks[tid].section)
  IN  /\ Truthy(dest) /\ EnsureSectionId(dest) # NULL
      /\ ~FindSectionIn(EnsureSectionId(dest), pid).found

\* the error with which the call fails before it looks at its hints
EntryError(st) ==
  IF st.op = "moveTask"
    THEN IF normalizeGuid(st.req.project) = NULL
              \/ normalizeGuid(st.req.item) = NULL THEN "BadRequest"
         ELSE IF NoSuchTask(st.req) THEN "NotFound"
         ELSE IF InvalidDest(st.req) THEN "BadRequest"
         ELSE IF NoSuchDest(st.req) THEN "NotFound"
         ELSE "none"
    ELSE IF normalizeGuid(st.req.item) = NULL THEN "BadRequest"
         ELSE IF ~(st.id \in SubIds /\ subtasks[st.id].exists) THEN "NotFound"
         ELSE IF subtasks[st.id].task = NULL THEN "BadRequest"
         ELSE "none"

\* C20: a moveTask / moveSubTask call with a hint that names no item of the
\* destination container computes the key that the same request computes
\* with that hint absent, and a call that carries hints fails with
\* BadRequest or NotFound only when the request fails so without them.
C20_DanglingHint ==
  \A p \in Procs :
    LET st == proc[p]
    IN  /\ (st.op \in MoveOps /\ st.pc = "write" /\ st.attempt <= 1
              /\ (Dangling(st, HintB(st)) \/ Dangling(st, HintA(st))))
             => st.newRank = KeyWithHints(st, DropDangling(st, HintB(st)),
                                              DropDangling(st, HintA(st)))
        /\ (st.op \in MoveOps /\ st.pc = "done"
              /\ st.result \in {"BadRequest", "NotFound"}
              /\ (HintB(st) # NULL \/ HintA(st) # NULL))
             => st.result = EntryError(st)

\* a moveTask call about to write whose beforeId names a task of another
\* section while its afterId names a task of the destination
C20_Witness ==
  \E p \in Procs :
    /\ proc[p].op = "moveTask" /\ proc[p].pc = "write"
    /\ HintB(proc[p]) \in TaskIds /\ tasks[HintB(proc[p])].exists
    /\ Dangling(proc[p], HintB(proc[p]))
    /\ proc[p].after.found

\* ------------------------------------------------------------------------
\* moveSection placement, hint order, allocator range
\* ------------------------------------------------------------------------
\* C22: a moveSection with only afterId resolved (to section A, not the
\* moved section), where B is the section of the project with the least key
\* above key(A), B is not the moved section and key(B) - key(A) >= 2, computes
\* a key K with key(A) < K < key(B); and symmetrically with only beforeId
\* resolved (to B) and A the section with the greatest key below key(B).
C22_SectionNeighbour ==
  \A p \in Procs :
    LET st == proc[p]
        K  == st.newRank
        R  == SectionRanks(st.dest)
    IN  (st.op = "moveSection" /\ st.pc = "write")
          => /\ (st.after.found /\ ~st.before.found /\ st.afterId # st.id)
                  => \A b \in R \ {sections[st.id].rank} :
                       (/\ NumLt(st.after.rank, b)
                        /\ \A q \in R : NumLt(st.after.rank, q) => ~NumLt(q, b)
                        /\ GapAtLeast2(st.after.rank, b))
                         => NumLt(st.after.rank, K) /\ NumLt(K, b)
             /\ (~st.after.found /\ st.before.found /\ st.beforeId # st.id)
                  => \A a \in R \ {sections[st.id].rank} :
                       (/\ NumLt(a, st.before.rank)
                        /\ \A q \in R : NumLt(q, st.before.rank) => ~NumLt(a, q)
                        /\ GapAtLeast2(a, st.before.rank))
                         => NumLt(a, K) /\ NumLt(K, st.before.rank)

\* C23: a moveSection in which no hint resolves computes a key that is
\* strictly greater than the key of every other section of the project.
C23_SectionTail ==
  \A p \in Procs :
    LET st == proc[p]
    IN  (st.op = "moveSection" /\ st.pc = "write"
           /\ ~st.after.found /\ ~st.before.found)
          => \A x \in SectionIds \ {st.id} :
               (sections[x].exists /\ sections[x].project = st.dest)
                 => NumLt(sections[x].rank, st.newRank)

\* C26: whenever a moveTask, moveSubTask or moveSection has resolved both
\* hints in the destination container, the allocator is called with
\* lower < upper: key(afterId row) < key(beforeId row).
C26_OrderedBoundaries ==
  \A p \in Procs :
    LET st == proc[p]
    IN  (st.op \in AllMoveOps /\ st.pc \in {"write", "done"}
           /\ BothResolved(st))
          => NumLt(st.after.rank, st.before.rank)

\* C27: for every L with 0 <= L < MAX, rankBetween(encode(L), encode(L + 1))
\* returns encode(L + 1), the upper boundary.
C27_AdjacentBoundaries ==
  (/\ ret # NullStr /\ argPrev # NullStr /\ argNext # NullStr
   /\ toBig(argNext) = BigAdd(toBig(argPrev), One))
    => ret = argNext

\* rankBetween has been called on the two greatest keys, MAX - 1 and MAX
C27_Witness ==
  ret # NullStr /\ argPrev = HighKey(1) /\ argNext = HighKey(0)

\* the bigint mid hands to pad
midArg(a, b) ==
  IF BigGe(a, b) THEN BigDiv2(BigAdd(a, MAX))
  ELSE LET m == BigDiv2(BigAdd(a, b))
       IN  IF m = a \/ m = b THEN BigAdd(a, One) ELSE m

\* the bigint rankBetween hands to pad (the literal default needs no pad)
padArg(prev, next) ==
  IF prev = NullStr /\ next = NullStr THEN toBig(DefaultSectionRank)
  ELSE IF prev = NullStr /\ next # NullStr THEN BigDiv2(toBig(next))
  ELSE IF prev # NullStr /\ next = NullStr
    THEN BigDiv2(BigAdd(toBig(prev), MAX))
  ELSE midArg(toBig(prev), toBig(next))

\* a string of exactly WIDTH decimal digits (so its value is in [0, MAX])
WellFormedKey(k) ==
  /\ Len(k) = WIDTH
  /\ \A i \in 1..WIDTH : k[i] \in 0..9
  /\ ~BigLt(MAX, toBig(k))

\* the keys stored in the three tables
StoredKeys ==
  { sections[x].rank : x \in { y \in SectionIds : sections[y].exists } }
    \cup { tasks[x].rank : x \in { y \in TaskIds : tasks[y].exists } }
    \cup { subtasks[x].rank : x \in { y \in SubIds : subtasks[y].exists } }

\* the keys of the container a call reads its boundaries from
DestKeys(st) ==
  IF st.op = "moveTask" THEN TaskRanks(Pid(st), st.dest)
  ELSE IF st.op = "createTask" THEN TaskRanks(st.cur, st.dest)
  ELSE IF st.op \in {"moveSubTask", "addSubTask"} THEN SubRanks(st.dest)
  ELSE SectionRanks(st.dest)

\* C28: every key computed and every key written by createSection,
\* createTask, addSubTask, moveSection, moveTask or moveSubTask is a string of
\* exactly WIDTH decimal digits with value in [0, MAX]; for every pair of
\* boundaries the call can read (keys of its container, or absent) the
\* number handed to pad has at most WIDTH digits, so nothing is truncated;
\* and the string order of the new key against the stored keys is their
\* numeric order.
C28_Step(p) ==
  LET st == proc[p]
      nx == proc'[p]
      K  == nx.newRank
      B  == DestKeys(nx) \cup {NullStr}
  IN  /\ (K # st.newRank /\ K # NullStr)
           => /\ WellFormedKey(K)
              /\ \A lo \in B : \A hi \in B : Len(padArg(lo, hi)) <= WIDTH
              /\ \A k \in DestKeys(nx) : /\ StrLt(k, K) <=> NumLt(k, K)
                                         /\ StrLt(K, k) <=> NumLt(K, k)
      /\ (nx.result = "ok" /\ st.result # "ok")
           => \A k \in StoredKeys' : WellFormedKey(k)

C28_KeyFormat == [][\A p \in Procs : C28_Step(p)]_vars

\* a call wrote the key it computed from a stored greatest key of MAX
C28_Witness ==
  \E p \in Procs :
    /\ proc[p].result = "ok" /\ proc[p].newRank # NullStr
    /\ HighKey(0) \in StoredKeys
    /\ proc[p].newRank \in StoredKeys
    /\ proc[p].op \in {"moveTask", "moveSubTask", "moveSection"}

\* ------------------------------------------------------------------------
\* tail append of a move without resolved hints
\* ------------------------------------------------------------------------
\* the commit of a moveTask / moveSubTask in which neither hint resolved
NoHintCommit(p) ==
  /\ proc[p].op \in MoveOps /\ proc[p].pc = "write"
  /\ ~proc[p].after.found /\ ~proc[p].before.found
  /\ proc'[p].result = "ok"

\* C21 as stated: when moveTask or moveSubTask commits a write for a request
\* in which neither hint resolves, the new key is strictly greater than the
\* key of every other item that was in the destination container when the
\* call read it.
C21_Original ==
  [][\A p \in Procs :
       NoHintCommit(p)
         => \A r \in proc[p].seen : NumLt(r, proc[p].newRank)]_vars

\* C21: the same, for a call that read no key above MAX - 2 in the
\* destination container.
C21_TailAppend ==
  [][\A p \in Procs :
       (NoHintCommit(p) /\ \A r \in proc[p].seen : ~NumLt(HighKey(2), r))
         => \A r \in proc[p].seen : NumLt(r, proc[p].newRank)]_vars

\* a move without hints has committed MAX - 1 after reading MAX - 2 as the
\* greatest key of its destination
C21_Witness ==
  \E p \in Procs :
    /\ proc[p].op \in MoveOps /\ proc[p].result = "ok"
    /\ ~proc[p].after.found /\ ~proc[p].before.found
    /\ HighKey(2) \in proc[p].seen
    /\ proc[p].newRank = HighKey(1)

\* ------------------------------------------------------------------------
\* bounded retry
\* ------------------------------------------------------------------------
RetryOps == {"moveSubTask", "createSection"}

\* the number of the write attempt a call is at or, in the catch branch of
\* createSection, heading to: the loop of moveSubTask counts from 1, the
\* loop of createSection from 0 and advances after the catch branch
WriteAttempt(st) ==
  IF st.op = "moveSubTask" THEN st.attempt
  ELSE IF st.pc = "refetch" THEN st.attempt + 2
  ELSE st.attempt + 1

\* a step that issues a write (update or create)
WriteStep(p) ==
  /\ proc'[p] # proc[p]
  /\ \/ proc[p].op = "moveSubTask" /\ proc[p].pc = "write"
        /\ ~MoveSubTaskIsNoop(proc[p])
     \/ proc[p].op = "createSection" /\ proc[p].pc = "create"

\* C24: moveSubTask and createSection issue at most MAX_RETRY = 3 write
\* attempts per call (every write attempt either ends the call or is followed
\* by the attempt with the next number, and the number never exceeds 3), and
\* every call that has started ends: with the write committed, with a no-op
\* return, or with an error.
C24_BoundedRetry ==
  /\ [](\A p \in Procs :
          proc[p].op \in RetryOps => WriteAttempt(proc[p]) <= MAX_RETRY)
  /\ [][\A p \in Procs :
          WriteStep(p)
            => \/ proc'[p].pc = "done"
               \/ WriteAttempt(proc'[p]) = WriteAttempt(proc[p]) + 1]_vars
  /\ \A p \in Procs :
       (proc[p].op \in RetryOps /\ proc[p].pc # "done")
         ~> (/\ proc[p].pc = "done"
             /\ proc[p].result \in {"ok", "noop", "NotFound", "BadRequest",
                                    "P2002", "P2025"})

\* a moveSubTask and a createSection have both ended after three rejected
\* write attempts
C24_Witness ==
  \E p \in Procs : \E q \in Procs :
    /\ proc[p].op = "moveSubTask" /\ proc[p].pc = "done"
    /\ proc[p].result = "P2002" /\ WriteAttempt(proc[p]) = MAX_RETRY
    /\ proc[q].op = "createSection" /\ proc[q].pc = "done"
    /\ proc[q].result = "P2002" /\ WriteAttempt(proc[q]) = MAX_RETRY

\* ------------------------------------------------------------------------
\* the operations outside the ordering engine
\* ------------------------------------------------------------------------
AdminOps == {"updateTask", "updateSubTask", "updateSection", "removeSection"}

\* C25: no step of updateTask, updateSubTask, updateSection or removeSection
\* changes the rank of a section, task or subtask that exists after the step:
\* such a row was there before the step with the same rank, or the step is
\* the rollback of the call and puts the row back with the rank it had.
C25_RanksKept ==
  [][\A p \in Procs :
       (proc'[p] # proc[p] /\ proc'[p].op \in AdminOps)
         => /\ \A x \in SectionIds :
                 sections'[x].exists
                   => sections[x].exists /\ sections'[x].rank = sections[x].rank
            /\ \A t \in TaskIds :
                 tasks'[t].exists
                   => \/ tasks[t].exists /\ tasks'[t].rank = tasks[t].rank
                      \/ \E e \in proc[p].undoTasks :
                           e[1] = t /\ e[2].rank = tasks'[t].rank
            /\ \A u \in SubIds :
                 subtasks'[u].exists
                   => \/ subtasks[u].exists
                         /\ subtasks'[u].rank = subtasks[u].rank
                      \/ \E e \in proc[p].undoSubs :
                           e[1] = u /\ e[2].rank = subtasks'[u].rank]_vars

\* a removeSection without includeTask has re-homed task t1 and an updateTask
\* has written the data of t1
C25_Witness ==
  \E p \in Procs : \E q \in Procs :
    /\ proc[p].op = "removeSection" /\ proc[p].result = "ok"
    /\ ~proc[p].req.includeTask /\ proc[p].id = "s1"
    /\ proc[q].op = "updateTask" /\ proc[q].result = "ok"
    /\ tasks["t1"].exists /\ tasks["t1"].section = NULL /\ tasks["t1"].data = 1

\* C29: the updateMany of a removeSection with includeTask = false never
\* fails; after it the tasks of the removed section are unlocated tasks of
\* the project with their ranks unchanged, and no two unlocated tasks of the
\* project have the same rank.
C29_Rehoming ==
  [][\A p \in Procs :
       LET pid == proc[p].cur
           sid == proc[p].id
       IN  (/\ proc[p].op = "removeSection" /\ proc[p].pc = "tasks"
            /\ ~proc[p].req.includeTask /\ proc'[p] # proc[p])
             => /\ proc'[p].pc = "delete"
                /\ \A t \in SectionTasks(pid, sid) :
                     /\ tasks'[t].exists /\ tasks'[t].section = NULL
                     /\ tasks'[t].rank = tasks[t].rank
                /\ \A t \in TaskIds : \A v \in TaskIds \ {t} :
                     (/\ tasks'[t].exists /\ tasks'[v].exists
                      /\ tasks'[t].project = pid /\ tasks'[v].project = pid
                      /\ tasks'[t].section = NULL /\ tasks'[v].section = NULL)
                       => tasks'[t].rank # tasks'[v].rank]_vars

\* ------------------------------------------------------------------------
\* repeated appends
\* ------------------------------------------------------------------------
\* C30: with calls one after the other, every createSection, createTask and
\* addSubTask on a non-empty container computes a key strictly greater than
\* the greatest key of the container, however many appends came before.
C30_AppendsNeverExhaust ==
  (ret # NullStr /\ argPrev # NullStr /\ argNext = NullStr)
    => NumLt(argPrev, ret)

====
